---- MODULE Spec2Model ----
(***************************************************************************)
(* tabReaper popup (src/src/popup.ts, second copy, lines 938-2546) and the *)
(* Obsidian REST wrapper (src/unnamed/part_000).                           *)
(*                                                                         *)
(* Strings are sequences of tokens; a token is a TLA+ string standing for  *)
(* a run of characters that no operation of the program ever splits.       *)
(* Non-ASCII literals of the source are written with ASCII stand-ins,      *)
(* named where they are defined.  Optional (possibly undefined) values are *)
(* None / Some(x).                                                         *)
(***************************************************************************)
EXTENDS Integers, Sequences, FiniteSets, TLC

VARIABLES
  tabs,            \* allWindows[0].tabs: tab id -> [title, url, discarded]
  windowLabel,     \* allWindows[0].label
  captureImages,   \* allWindows[0].captureImages
  selectedTabs,    \* the Set selectedTabs
  status,          \* statusEl: the type of the last showStatus
  pc,              \* position of saveSelectedTabs
  loc,             \* locals of the running saveSelectedTabs
  flat,            \* flatTabs: the ids of byWindow's tab copies, in order
  rec,             \* the tab copies of byWindow: id -> fields added by the save
  requests,        \* the requests the current save sent to the vault, in order
  aiLog,           \* the AI requests of the current save (generateSummaryJson / callAI)
  dayIndex,        \* the entries appended to library/day-index.md by the current save
  written,         \* the notes PUT by the earlier saves: [tab, uid, path]
  saves,           \* number of tab copies the saves have processed so far
  faults,          \* number of failures the environment has produced
  fnCall,          \* pure-function harness: the call
  fnOut,           \* pure-function harness: its result
  fnDone,          \* pure-function harness: the call was made
  calls,           \* the calls of saveSelectedTabs that are waiting on an await
  wait,            \* one timed wait: its timer, its listener, how it settled
  ui               \* the tab list of the popup: windows, selection, controls

mainVars == <<tabs, windowLabel, captureImages, selectedTabs, status, pc, loc,
              flat, rec, requests, aiLog, dayIndex, written, saves, faults>>
fnVars == <<fnCall, fnOut, fnDone>>
sideVars == <<calls, wait, ui>>
vars == <<tabs, windowLabel, captureImages, selectedTabs, status, pc, loc,
          flat, rec, requests, aiLog, dayIndex, written, saves, faults,
          fnCall, fnOut, fnDone, calls, wait, ui>>

----------------------------------------------------------------------------
(* Bounds of the model *)

NumTabs == 2         \* tabs of the current window
MaxSavedTabs == 2    \* tab copies the saves of one behaviour process
MaxFaults == 3       \* environment failures per behaviour
MaxSegs == 4         \* segments of a markdown input of appendUrlsToPointsSection
MaxTurns == 5        \* turns of a chat given to the diagnostics
MaxCalls == 2        \* calls of saveSelectedTabs running at once
MaxEvents == 3       \* chrome.tabs.onUpdated events during one reload wait
MaxPosts == 3        \* article elements of a page given to the thread extraction
MaxRepeats == 3      \* turns of a chat given to dedupeTurns
MaxAnchors == 32     \* numbered a[href^="http"] elements of a page given to the link extraction

----------------------------------------------------------------------------
(* Program constants *)

SHORT_TITLE_MAX_LEN == 60
MaxAttempts == 3
MinTurnCount == 4
MinRawChars == 80
RoleRatio == 3
UrlsFromTextCap == 20
ExtractedUrlsCap == 30
LinksCap == 30

VAULT_CLIP_DIR == "library/clip"
VAULT_REFERENCE_DIR == "library/reference"
VAULT_RAW_DIR == "memory/raw_content"
RAW_CONTENT_PATH_PREFIX == "memory/raw_content"
VAULT_IMAGE_DIR == "memory/raw_content/img"
DAY_INDEX_PATH == "library/day-index.md"

NL == "\n"
TAB == "\t"
UNSET == "(unset)"                  \* the marker string "（未設定）"
NO_TITLE == "(no title)"            \* "（無題）"
NOT_FETCHED == "(not fetched)"      \* "（未取得）"
SUMMARY_NOT_FETCHED == "(summary not fetched)"   \* "（要約は未取得）"
DISTILL_NOT_FETCHED == "(distill not fetched)"   \* "（distill未取得）"
POINTS == "Points"                  \* the heading text "要点"
SUMMARY == "Summary"                \* the heading text "要約"
CONVERSATION == "Conversation"      \* the heading text "会話"
IMAGES == "Images"                  \* the heading text "画像"
TODAY == "2026-01-01"               \* what todayDate() returns during the run

----------------------------------------------------------------------------
(* Strings and options *)

None == <<>>
Some(x) == <<x>>
IsSome(o) == Len(o) = 1
Get(o) == o[1]

Min(S) == CHOOSE x \in S : \A y \in S : x <= y
Max2(a, b) == IF a >= b THEN a ELSE b
Min2(a, b) == IF a <= b THEN a ELSE b

\* s.slice(a, b), 0-based, b exclusive
Slice(s, a, b) == SubSeq(s, a + 1, b)

\* pat occurs in s at 0-based offset i
OccursAt(s, pat, i) ==
  /\ i >= 0
  /\ i + Len(pat) <= Len(s)
  /\ \A k \in 1..Len(pat) : s[i + k] = pat[k]

\* s.indexOf(pat, from): the 0-based offset of the first occurrence at or after from, or -1
IndexOf(s, pat, from) ==
  LET hits == {i \in from..(Len(s) - Len(pat)) : OccursAt(s, pat, i)}
  IN IF hits = {} THEN -1 ELSE Min(hits)

RECURSIVE Trim(_)
\* s.trim()
Trim(s) ==
  IF Len(s) = 0 THEN s
  ELSE IF Head(s) = " " THEN Trim(Tail(s))
  ELSE IF s[Len(s)] = " " THEN Trim(SubSeq(s, 1, Len(s) - 1))
  ELSE s

RECURSIVE SeqOfSet(_)
\* the members of a set of numbers in ascending order (tab ids: the order of win.tabs)
SeqOfSet(S) == IF S = {} THEN <<>> ELSE <<Min(S)>> \o SeqOfSet(S \ {Min(S)})

RECURSIVE Join(_, _)
\* parts.join(sep): parts is a sequence of strings
Join(parts, sep) ==
  IF Len(parts) = 0 THEN <<>>
  ELSE IF Len(parts) = 1 THEN parts[1]
  ELSE parts[1] \o sep \o Join(Tail(parts), sep)

\* xs.map(f) for f = (u) => "- " + u
DashLines(urls) == [i \in 1..Len(urls) |-> <<"- ">> \o urls[i]]

\* a level-2 heading "## name"
H2(name) == <<"#", "#", " ", name>>

----------------------------------------------------------------------------
(* URLs.  A regular expression or substring test on a URL is modelled by   *)
(* the set of the model's URLs it accepts.                                 *)

URL_WEB == "https://example.com/a"
URL_X == "https://x.com/u/status/1"
URL_YOUTUBE == "https://youtu.be/v"
URL_PDF == "https://example.com/p.pdf"
URL_CHATGPT == "https://chatgpt.com/c/1"
URL_CLAUDE == "https://claude.ai/chat/1"
URL_GEMINI == "https://gemini.google.com/app/1"
AllUrls == {URL_WEB, URL_X, URL_YOUTUBE, URL_PDF, URL_CHATGPT, URL_CLAUDE, URL_GEMINI}

TWITTER_HOST_RE == {URL_X}
YOUTUBE_HOST_RE == {URL_YOUTUBE}
PdfSuffixRe == {URL_PDF}

detectSourceType(url) ==
  IF url \in TWITTER_HOST_RE THEN "x"
  ELSE IF url \in YOUTUBE_HOST_RE THEN "youtube"
  ELSE IF url \in PdfSuffixRe THEN "paper"
  ELSE "web"

isTwitterUrl(url) == url \in TWITTER_HOST_RE

\* the ChatService of a URL, or None (null)
detectChatService(url) ==
  IF url = URL_CHATGPT THEN Some("chatgpt")
  ELSE IF url = URL_CLAUDE THEN Some("claude")
  ELSE IF url = URL_GEMINI THEN Some("gemini")
  ELSE None

----------------------------------------------------------------------------
(* Links and URLs found in the body text *)

\* the href of the k-th numbered anchor of a page
NumberedHref(k) == "https://foo.bar/l" \o ToString(k)

\* the Obsidian link "[label](href)"
ObsidianLink(label, href) == <<"[", label, "](", href, ")">>

\* an anchor text that is itself a markdown link, and the label that lines
\* 1073-1077 make of it (the "]" escaped)
MD_TITLE == "[x](http://a.b)"
MD_LABEL == "[x\\](http://a.b)"
EscapeLabel(t) == IF t = MD_TITLE THEN MD_LABEL ELSE t

\* hrefFromObsidianLink: what /\]\((https?:\S+)\)$/ captures in "[label](href)",
\* or None.  The match starts at the first "](http" that no white space
\* separates from the end, which is inside the label MD_LABEL.
hrefFromObsidianLink(link) ==
  IF /\ Len(link) >= 3
     /\ link[Len(link)] = ")"
     /\ link[Len(link) - 2] = "]("
     /\ link[Len(link) - 1] \in AllUrls \cup {"https://foo.bar/x", "https://foo.bar/y"}
                                        \cup {NumberedHref(k) : k \in 1..(MaxAnchors + 1)}
  THEN IF Len(link) = 5 /\ link[2] = MD_LABEL
       THEN Some("http://a.b)](" \o link[4])
       ELSE Some(link[Len(link) - 1])
  ELSE None

RECURSIVE Dedupe(_, _)
\* [...new Set(xs)]: first occurrences, in order
Dedupe(xs, seen) ==
  IF Len(xs) = 0 THEN <<>>
  ELSE IF Head(xs) \in seen THEN Dedupe(Tail(xs), seen)
  ELSE <<Head(xs)>> \o Dedupe(Tail(xs), seen \cup {Head(xs)})

\* A body text is a sequence of tokens: words and the matches of the URL
\* regular expression, a match possibly ending in punctuation.
BODY_URL_1 == "https://foo.bar/x"
BODY_URL_2 == "https://foo.bar/y"
UrlMatches == {"https://foo.bar/x", "https://foo.bar/x.", "https://foo.bar/y"}

\* u.replace(/[.,;:!?)]+$/, "")
StripTrailingPunct(u) == IF u = "https://foo.bar/x." THEN "https://foo.bar/x" ELSE u

extractUrlsFromText(text) ==
  LET found == SelectSeq(text, LAMBDA tok : tok \in UrlMatches)
      normalized == [i \in 1..Len(found) |-> StripTrailingPunct(found[i])]
      unique == Dedupe(normalized, {})
  IN Slice(unique, 0, Min2(UrlsFromTextCap, Len(unique)))

\* lines 2413-2416: the extractedUrls of a tab from its body text and DOM links
ExtractedUrlsOf(bodyText, links) ==
  LET fromText == IF IsSome(bodyText) /\ Get(bodyText) # <<>>
                  THEN extractUrlsFromText(Get(bodyText)) ELSE <<>>
      hrefs == {Get(hrefFromObsidianLink(links[i])) :
                  i \in {j \in 1..Len(links) : IsSome(hrefFromObsidianLink(links[j]))}}
      kept == SelectSeq(fromText, LAMBDA u : u \notin hrefs)
      fromTextLinks == [i \in 1..Len(kept) |-> ObsidianLink(kept[i], kept[i])]
      all == links \o fromTextLinks
  IN Slice(all, 0, Min2(ExtractedUrlsCap, Len(all)))

\* the mutant: the loop over the anchors never stops early
LinksFull_Never(links) == FALSE

\* line 1079
LinksFull(links) == Len(links) >= LinksCap

RECURSIVE LinksLoop(_, _, _, _)
\* lines 1069-1080: the loop over the filtered anchors from the i-th on
LinksLoop(filtered, i, seen, links) ==
  IF i > Len(filtered) THEN links
  ELSE LET a == filtered[i]
       IN IF a.href = "" \/ a.href \in seen THEN LinksLoop(filtered, i + 1, seen, links)
          ELSE LET label == IF a.title # "" THEN a.title ELSE a.href
                   pushed == Append(links, ObsidianLink(EscapeLabel(label), a.href))
               IN IF LinksFull(pushed) THEN pushed
                  ELSE LinksLoop(filtered, i + 1, seen \cup {a.href}, pushed)

\* extractBodyTextAndLinksInPage on a content root with the text bodyText and
\* the anchors [href, title, excluded] of a[href^="http"], in document order;
\* excluded: the anchor is inside an element of excludeSelector
extractBodyTextAndLinksInPage(bodyText, anchors) ==
  [bodyText |-> Trim(bodyText),
   links |-> LinksLoop(SelectSeq(anchors, LAMBDA a : ~a.excluded), 1, {}, <<>>)]

----------------------------------------------------------------------------
(* appendUrlsToPointsSection *)

POINTS_HEADING == H2(POINTS) \o <<NL>>          \* "## 要点\n"
NEXT_SECTION == <<NL, NL>> \o <<"#", "#", " ">> \* "\n\n## "

\* the mutant: the insertion point ignores the sections that follow
InsertAt_AlwaysAtEnd(md, afterPoints) == Len(md)

\* lines 1766-1767
InsertAt(md, afterPoints) ==
  LET nextSection == IndexOf(md, NEXT_SECTION, afterPoints)
  IN IF nextSection # -1 THEN nextSection ELSE Len(md)

appendUrlsToPointsSection(md, urls) ==
  IF Len(urls) = 0 THEN md
  ELSE LET idx == IndexOf(md, POINTS_HEADING, 0)
       IN IF idx = -1 THEN md
          ELSE LET afterPoints == idx + Len(POINTS_HEADING)
                   insertAt == InsertAt(md, afterPoints)
                   lines == Join(DashLines(urls), <<NL>>)
               IN Slice(md, 0, insertAt) \o <<NL>> \o lines \o Slice(md, insertAt, Len(md))

----------------------------------------------------------------------------
(* Note builders *)

todayDate == TODAY

buildClipFrontmatter(url, rawContentPath, label, hasRaw) ==
  LET sourceType == detectSourceType(url)
      rawPolicy == IF hasRaw THEN "stored" ELSE "url_only"
  IN Join(<< <<"---">>,
             <<"source_type: ", sourceType>>,
             <<"pipeline: ", "summary">>,
             <<"raw_policy: ", rawPolicy>>,
             <<"date: ", todayDate>>,
             <<"window: ">> \o label,
             <<"url: ", url>>,
             <<"raw_content: ">> \o rawContentPath,
             <<"linked_from: ", "tabReaper">>,
             <<"---">> >>, <<NL>>)

\* the mutant: the unset marker counts as a stored raw path
PlaceholderHasRaw_MarkerCounts(rawContentPath) == IsSome(rawContentPath)

\* line 1805: rawContentPath != null && rawContentPath !== "（未設定）"
PlaceholderHasRaw(rawContentPath) ==
  IsSome(rawContentPath) /\ Get(rawContentPath) # <<UNSET>>

\* tab: a record with url and extractedUrls (an option); rawContentPath and
\* label are options (the parameters are optional)
buildPlaceholderSummaryMd(tab, rawContentPath, label) ==
  LET rawLine == IF IsSome(rawContentPath) THEN Get(rawContentPath) ELSE <<UNSET>>
      fm == buildClipFrontmatter(tab.url, rawLine,
                                 IF IsSome(label) THEN Get(label) ELSE <<>>,
                                 PlaceholderHasRaw(rawContentPath))
      urls == IF IsSome(tab.extractedUrls) THEN Get(tab.extractedUrls) ELSE <<>>
      pointLines == IF Len(urls) > 0
                    THEN <<"- ", SUMMARY_NOT_FETCHED, NL>> \o Join(DashLines(urls), <<NL>>)
                    ELSE <<"- ", SUMMARY_NOT_FETCHED>>
  IN fm \o <<NL, NL>> \o H2(POINTS) \o <<NL>> \o pointLines
        \o <<NL, NL>> \o H2(SUMMARY) \o <<NL, NOT_FETCHED>>
        \o <<NL, NL>> \o <<"#", "#", "#", " ", "tags", NL, UNSET, NL>>

\* A title is a sequence of characters; "/" stands for the characters the
\* first replace turns into "_", " " for white space.
RECURSIVE ReplaceIllegal(_)
ReplaceIllegal(s) ==
  IF Len(s) = 0 THEN <<>>
  ELSE <<IF Head(s) = "/" THEN "_" ELSE Head(s)>> \o ReplaceIllegal(Tail(s))

RECURSIVE CollapseSpaces(_)
\* s.replace(/\s+/g, " ")
CollapseSpaces(s) ==
  IF Len(s) <= 1 THEN s
  ELSE IF s[1] = " " /\ s[2] = " " THEN CollapseSpaces(Tail(s))
  ELSE <<s[1]>> \o CollapseSpaces(Tail(s))

\* title: an option (string | null)
getBaseForTab(title) ==
  LET t == IF IsSome(title) /\ Get(title) # <<>> THEN Get(title) ELSE <<"untitled">>
      cut == Slice(Trim(CollapseSpaces(ReplaceIllegal(t))), 0,
                   Min2(SHORT_TITLE_MAX_LEN, Len(Trim(CollapseSpaces(ReplaceIllegal(t))))))
  IN IF cut # <<>> THEN cut ELSE <<"untitled">>

----------------------------------------------------------------------------
(* Chat turns and diagnostics *)

\* the mutant: the key is the text as it stands
dedupeKey_AsIs(t) == <<t.role, ":">> \o t.text

\* a turn is [role, text]; a text is a sequence of characters, " " white space
dedupeKey(t) == <<t.role, ":">> \o Trim(CollapseSpaces(Trim(t.text)))

RECURSIVE DedupeTurnsFrom(_, _)
DedupeTurnsFrom(turns, seen) ==
  IF Len(turns) = 0 THEN <<>>
  ELSE LET t == Head(turns)
           text == Trim(t.text)
       IN IF text = <<>> THEN DedupeTurnsFrom(Tail(turns), seen)
          ELSE IF dedupeKey(t) \in seen THEN DedupeTurnsFrom(Tail(turns), seen)
          ELSE <<[role |-> t.role, text |-> text]>>
                 \o DedupeTurnsFrom(Tail(turns), seen \cup {dedupeKey(t)})

dedupeTurns(turns) == DedupeTurnsFrom(turns, {})

CountRole(turns, role) == Cardinality({i \in 1..Len(turns) : turns[i].role = role})

\* line 2094
BiasedRoles(userCount, asstCount) ==
  Max2(userCount, asstCount) >= RoleRatio * Max2(Min2(userCount, asstCount), 1)

\* lines 2087-2101: the extraction record of runChatDistillForTab, from the
\* deduplicated turns and the length of the raw text
ChatExtraction(turns, rawChars) ==
  LET turnsCount == Len(turns)
      userCount == CountRole(turns, "User")
      asstCount == CountRole(turns, "Assistant")
      w1 == IF turnsCount < MinTurnCount THEN <<"low_turn_count">> ELSE <<>>
      w2 == IF rawChars < MinRawChars THEN <<"short_raw_text">> ELSE <<>>
      w3 == IF BiasedRoles(userCount, asstCount) THEN <<"biased_roles">> ELSE <<>>
      warnings == w1 \o w2 \o w3
  IN [domTurns |-> 0, turns |-> turnsCount, rawChars |-> rawChars,
      partial |-> Len(warnings) > 0, warnings |-> warnings]

buildChatReferenceFrontmatter(url, rawContentPath, rawChatPath, label, hasRaw, service, extraction) ==
  LET rawPolicy == IF hasRaw THEN "stored" ELSE "url_only"
  IN Join(<< <<"---">>,
             <<"source_type: ", "chat">>,
             <<"pipeline: ", "distill">>,
             <<"raw_policy: ", rawPolicy>>,
             <<"date: ", todayDate>>,
             <<"service: ", service>>,
             <<"window: ">> \o label,
             <<"url: ", url>>,
             <<"raw_content: ">> \o rawContentPath,
             <<"raw_chat: ">> \o rawChatPath,
             <<"linked_from: ", "tabReaper">>,
             <<"extraction_dom_turns: ", ToString(extraction.domTurns)>>,
             <<"extraction_turns: ", ToString(extraction.turns)>>,
             <<"extraction_raw_chars: ", ToString(extraction.rawChars)>>,
             <<"extraction_partial: ", IF extraction.partial THEN "true" ELSE "false">>,
             <<"extraction_warnings: ">> \o extraction.warnings,
             <<"---">> >>, <<NL>>)

\* formatChatTurns
formatChatTurns(turns) ==
  Join([i \in 1..Len(turns) |-> <<"### ", turns[i].role, NL>> \o turns[i].text], <<NL, NL>>)

----------------------------------------------------------------------------
(* Frontmatter reading, for the properties *)

\* the values that follow the key token in md
FmValues(md, key) == {md[i + 1] : i \in {j \in 1..(Len(md) - 1) : md[j] = key}}
FmCount(md, key) == Cardinality({j \in 1..Len(md) : md[j] = key})

----------------------------------------------------------------------------
(* The pure functions, applied to inputs drawn from bounded sets *)

Segments ==
  { POINTS_HEADING,                          \* "## 要点\n"
    <<"- ", "a">>,                           \* a list line
    <<NL, NL>> \o H2(SUMMARY),               \* a heading after a blank line
    <<NL>> \o H2(SUMMARY),                   \* a heading right after a line
    <<NL, NL, "#", "#", "#", " ", "tags">>,  \* a level-3 heading
    <<NL>> }

RECURSIVE Mds(_)
\* the markdown texts of at most n segments
Mds(n) ==
  IF n = 0 THEN {<<>>}
  ELSE LET shorter == Mds(n - 1)
       IN shorter \cup {m \o seg : m \in shorter, seg \in Segments}

UrlLists == {<<>>, << <<BODY_URL_1>> >>, << <<BODY_URL_1>>, ObsidianLink("l", BODY_URL_2) >>}

RECURSIVE RoleSeqs(_)
RoleSeqs(n) ==
  IF n = 0 THEN {<<>>}
  ELSE LET shorter == RoleSeqs(n - 1)
       IN shorter \cup {s \o <<[role |-> r, text |-> <<ToString(Len(s))>>]>> :
                          s \in shorter, r \in {"User", "Assistant"}}

RawCharCounts == {0, 79, 80, 81}

RawPaths == {None, Some(<<UNSET>>), Some(<<RAW_CONTENT_PATH_PREFIX, "/", "p-", "Doc", "_", "0a1b2c3d", ".txt">>)}
Labels == {None, Some(<<"Work">>)}

\* the result of fetchChatContent when nothing could be extracted (lines 1466, 1487)
EmptyChat == [service |-> "unknown", turns |-> <<>>, rawText |-> <<>>, rawChars |-> 0]

GoodChat ==
  [service |-> "claude",
   turns |-> <<[role |-> "User", text |-> <<"q1">>], [role |-> "Assistant", text |-> <<"a1">>],
               [role |-> "User", text |-> <<"q2">>], [role |-> "Assistant", text |-> <<"a2">>]>>,
   rawText |-> <<"User:", "q1", NL, "Assistant:", "a1", NL, "User:", "q2", NL, "Assistant:", "a2">>,
   rawChars |-> 120]

----------------------------------------------------------------------------
(* The extraction functions.  page is what chrome.scripting.executeScript   *)
(* does when it is called: it throws (THROWS) or it returns the value that  *)
(* the injected function computed in the page (RETURNS(v)).                 *)

URL_CHROME == "chrome://extensions"
URL_WEBSTORE == "https://chrome.google.com/webstore/detail/x"
URL_NONE == ""

\* url.startsWith("http")
HttpUrls == AllUrls \cup {URL_WEBSTORE}
\* /^https?:\/\/chrome\.google\.com\/webstore\//i
WebstoreUrls == {URL_WEBSTORE}

\* the mutant: the discarded flag is not looked at
isTabUninjectable_IgnoresDiscarded(url, discarded) ==
  url \notin HttpUrls \/ url \in WebstoreUrls

isTabUninjectable(url, discarded) ==
  discarded \/ url \notin HttpUrls \/ url \in WebstoreUrls

THROWS == [threw |-> TRUE]
RETURNS(v) == [threw |-> FALSE, value |-> v]

\* what an extraction function hands back: its result and whether it called
\* executeScript
NotInjected(result) == [result |-> result, injected |-> FALSE]
Injected(result) == [result |-> result, injected |-> TRUE]

\* the page value is a string (a token sequence)
getSelectedTextInTab(url, discarded, page) ==
  IF isTabUninjectable(url, discarded) THEN NotInjected(None)
  ELSE IF page.threw THEN Injected(None)
  ELSE Injected(IF Len(page.value) > 0 THEN Some(page.value) ELSE None)

fetchTabBodyText(url, discarded, page) ==
  IF isTabUninjectable(url, discarded) THEN NotInjected(None)
  ELSE IF page.threw THEN Injected(None)
  ELSE Injected(IF Trim(page.value) # <<>> THEN Some(Trim(page.value)) ELSE None)

\* the page value is [bodyText, links]
fetchTabBodyAndLinks(url, discarded, page) ==
  IF isTabUninjectable(url, discarded) THEN NotInjected([bodyText |-> None, links |-> <<>>])
  ELSE IF page.threw THEN Injected([bodyText |-> None, links |-> <<>>])
  ELSE Injected([bodyText |-> IF Trim(page.value.bodyText) # <<>>
                              THEN Some(Trim(page.value.bodyText)) ELSE None,
                 links |-> page.value.links])

\* the page value is the list of images
fetchTabImages(url, discarded, page) ==
  IF isTabUninjectable(url, discarded) THEN NotInjected(<<>>)
  ELSE IF page.threw THEN Injected(<<>>)
  ELSE Injected(page.value)

\* the mutant: a failed race hands back a conversation
fetchChatContent_NoCatch(url, discarded, page) ==
  IF isTabUninjectable(url, discarded) THEN NotInjected(EmptyChat)
  ELSE IF page.threw THEN Injected(GoodChat)
  ELSE Injected([page.value EXCEPT !.turns = dedupeTurns(@)])

\* the page value is the chat as sanitizeChatText, extractTurnsFromRawText
\* and dedupeTurns leave it; THROWS stands for a failed injection and for the
\* 5-second timer winning the race
fetchChatContent(url, discarded, page) ==
  IF isTabUninjectable(url, discarded) THEN NotInjected(EmptyChat)
  ELSE IF page.threw THEN Injected(EmptyChat)
  ELSE Injected([page.value EXCEPT !.turns = dedupeTurns(@)])

----------------------------------------------------------------------------
(* extractTwitterThreadInPage.  An article is [link, tweetText]: the href of *)
(* its first a[href^="/"] and the textContent of its tweetText element, each *)
(* an option.  An href is a token sequence such as <<"/", "alice">>.         *)

THREAD_SEP == "\n\n---\n\n"

\* toLowerCase on the tokens of the model's hrefs
ToLowerCase(tok) == IF tok = "Alice" THEN "alice" ELSE tok

\* href.replace(/^\/|\/$/g, "")
StripSlashes(h) ==
  LET a == IF Len(h) > 0 /\ h[1] = "/" THEN Tail(h) ELSE h
  IN IF Len(a) > 0 /\ a[Len(a)] = "/" THEN SubSeq(a, 1, Len(a) - 1) ELSE a

\* the mutant: a link to a post counts as an author
getAuthor_StatusToo(art) ==
  IF ~IsSome(art.link) THEN <<>>
  ELSE LET href == StripSlashes(Trim(Get(art.link)))
       IN [k \in 1..Len(href) |-> ToLowerCase(href[k])]

\* lines 1010-1016; "" is the empty sequence
getAuthor(art) ==
  IF ~IsSome(art.link) THEN <<>>
  ELSE LET href == Trim(Get(art.link))
       IN IF \E k \in 1..Len(href) : href[k] = "/status/" THEN <<>>
          ELSE [k \in 1..Len(StripSlashes(href)) |-> ToLowerCase(StripSlashes(href)[k])]

\* lines 1018-1021
getText(art) == IF IsSome(art.tweetText) THEN Trim(Get(art.tweetText)) ELSE <<>>

RECURSIVE ThreadParts(_, _, _)
\* lines 1029-1034: the loop from article i on
ThreadParts(articles, i, author) ==
  IF i > Len(articles) THEN <<>>
  ELSE IF getAuthor(articles[i]) # author THEN ThreadParts(articles, i + 1, author)
  ELSE IF getText(articles[i]) # <<>>
       THEN <<getText(articles[i])>> \o ThreadParts(articles, i + 1, author)
       ELSE ThreadParts(articles, i + 1, author)

extractTwitterThreadInPage(articles) ==
  IF Len(articles) = 0 THEN <<>>
  ELSE IF getAuthor(articles[1]) = <<>> THEN getText(articles[1])
  ELSE Join(<<getText(articles[1])>> \o ThreadParts(articles, 2, getAuthor(articles[1])),
            <<THREAD_SEP>>)

\* the locals of saveSelectedTabs before it runs
LocInit ==
  [i |-> 0, j |-> 0, attempt |-> 0, hasKey |-> FALSE, windowLabel |-> <<>>,
   captureImages |-> FALSE, chat |-> EmptyChat, images |-> <<>>, failed |-> {},
   outcome |-> "none"]

\* a tab as buildWindowData records it
TabOf(title, url, discarded) ==
  [title |-> title, url |-> url, discarded |-> discarded,
   chatService |-> detectChatService(url)]

MainIdle ==
  /\ tabs = [t \in 1..NumTabs |-> TabOf(None, URL_WEB, FALSE)]
  /\ windowLabel = <<"Work">>
  /\ captureImages = FALSE
  /\ selectedTabs = {}
  /\ status = "none"
  /\ pc = "idle"
  /\ loc = LocInit
  /\ flat = <<>>
  /\ rec = <<>>
  /\ requests = <<>>
  /\ aiLog = <<>>
  /\ dayIndex = <<>>
  /\ written = {}
  /\ saves = 0
  /\ faults = 0

ExtractionFns ==
  {"getSelectedTextInTab", "fetchTabBodyText", "fetchTabBodyAndLinks", "fetchTabImages",
   "fetchChatContent"}

\* the URLs the extraction functions are tried on
ProbeUrls == {URL_WEB, URL_CLAUDE, URL_CHROME, URL_WEBSTORE, URL_NONE}

\* what the injected function of fn can compute in a page
PageValues(fn) ==
  CASE fn = "getSelectedTextInTab" -> {<<>>, <<"sel">>}
    [] fn = "fetchTabBodyText" -> {<<>>, <<" ">>, <<"see", " ", BODY_URL_1>>}
    [] fn = "fetchTabBodyAndLinks" ->
         {[bodyText |-> <<>>, links |-> <<>>],
          [bodyText |-> <<"see", " ", BODY_URL_1>>, links |-> <<ObsidianLink("y", BODY_URL_2)>>]}
    [] fn = "fetchTabImages" ->
         {<<>>, <<[src |-> "https://foo.bar/a.png", alt |-> "a", videoUrl |-> None]>>}
    [] fn = "fetchChatContent" -> {EmptyChat, GoodChat}

\* the articles of the pages the thread extraction is tried on
ArticleLinks ==
  {None, Some(<<"/", "alice">>), Some(<<"/", "Alice", "/">>), Some(<<"/", "bob">>),
   Some(<<"/", "alice", "/status/", "1">>)}
ArticleTexts == {None, Some(<<"one">>), Some(<<"two", " ">>), Some(<<" ">>)}
Articles == [link : ArticleLinks, tweetText : ArticleTexts]
Pages(n) == UNION {[1..k -> Articles] : k \in 0..n}

\* pages for the link extraction: n numbered anchors whose hrefs repeat with
\* period p and of which every e-th is excluded (none for e = 0), after an
\* optional anchor: to a URL that the body text also holds (with a plain
\* title, or with a markdown link as its title), without href, or to the
\* href of the first numbered anchor
Anchor(href, title, excluded) == [href |-> href, title |-> title, excluded |-> excluded]
NumberedAnchors(n, p, e) ==
  [k \in 1..n |-> Anchor(NumberedHref(((k - 1) % p) + 1), "", e # 0 /\ k % e = 0)]
AnchorLists ==
  {lead \o NumberedAnchors(n, p, e) :
     lead \in {<<>>, <<Anchor(BODY_URL_2, "y", FALSE)>>, <<Anchor("", "", FALSE)>>,
               <<Anchor(BODY_URL_2, MD_TITLE, FALSE)>>,
               <<Anchor(NumberedHref(1), "first", FALSE)>>},
     n \in 0..MaxAnchors, p \in {1, 2, MaxAnchors - 3, MaxAnchors}, e \in {0, 3}}
BodyTexts == {<<>>, <<"see", " ", BODY_URL_1, " ", BODY_URL_2>>}

\* turns for dedupeTurns: texts that are empty, blank, or differ in white space only
TurnTexts == {<<>>, <<" ">>, <<"a">>, <<"a", " ">>, <<"a", " ", "b">>, <<"a", " ", " ", "b">>}
TurnLists(n) == UNION {[1..k -> [role : {"User", "Assistant"}, text : TurnTexts]] : k \in 0..n}

FnInit ==
  /\ MainIdle
  /\ calls = <<>> /\ wait = <<>> /\ ui = <<>>
  /\ fnOut = <<>>
  /\ fnDone = FALSE
  /\ \/ \E md \in Mds(MaxSegs), urls \in UrlLists :
          fnCall = [name |-> "appendUrlsToPointsSection", md |-> md, urls |-> urls]
     \/ \E url \in AllUrls, raw \in RawPaths, label \in Labels, urls \in {None} \cup {Some(u) : u \in UrlLists} :
          fnCall = [name |-> "buildPlaceholderSummaryMd",
                    tab |-> [url |-> url, extractedUrls |-> urls],
                    rawContentPath |-> raw, label |-> label]
     \/ \E url \in AllUrls, raw \in RawPaths \ {None}, hasRaw \in BOOLEAN :
          fnCall = [name |-> "buildClipFrontmatter", url |-> url,
                    rawContentPath |-> Get(raw), hasRaw |-> hasRaw]
     \/ \E url \in AllUrls, raw \in RawPaths \ {None}, hasRaw \in BOOLEAN :
          fnCall = [name |-> "buildChatReferenceFrontmatter", url |-> url,
                    rawContentPath |-> Get(raw), hasRaw |-> hasRaw]
     \/ \E turns \in RoleSeqs(MaxTurns), rawChars \in RawCharCounts :
          fnCall = [name |-> "ChatExtraction", turns |-> turns, rawChars |-> rawChars]
     \/ \E fn \in ExtractionFns, url \in ProbeUrls, discarded \in BOOLEAN :
          \E page \in {THROWS} \cup {RETURNS(v) : v \in PageValues(fn)} :
             fnCall = [name |-> fn, url |-> url, discarded |-> discarded, page |-> page]
     \/ \E anchors \in AnchorLists, bodyText \in BodyTexts :
          fnCall = [name |-> "extractBodyTextAndLinksInPage", bodyText |-> bodyText,
                    anchors |-> anchors]
     \/ \E turns \in TurnLists(MaxRepeats) :
          fnCall = [name |-> "dedupeTurns", turns |-> turns]
     \/ \E articles \in Pages(MaxPosts) :
          fnCall = [name |-> "extractTwitterThreadInPage", articles |-> articles]

ApplyAppendUrls ==
  /\ ~fnDone /\ fnCall.name = "appendUrlsToPointsSection"
  /\ fnOut' = appendUrlsToPointsSection(fnCall.md, fnCall.urls)
  /\ fnDone' = TRUE
  /\ UNCHANGED <<fnCall, mainVars, sideVars>>

ApplyPlaceholder ==
  /\ ~fnDone /\ fnCall.name = "buildPlaceholderSummaryMd"
  /\ fnOut' = buildPlaceholderSummaryMd(fnCall.tab, fnCall.rawContentPath, fnCall.label)
  /\ fnDone' = TRUE
  /\ UNCHANGED <<fnCall, mainVars, sideVars>>

ApplyClipFrontmatter ==
  /\ ~fnDone /\ fnCall.name = "buildClipFrontmatter"
  /\ fnOut' = buildClipFrontmatter(fnCall.url, fnCall.rawContentPath, <<"Work">>, fnCall.hasRaw)
  /\ fnDone' = TRUE
  /\ UNCHANGED <<fnCall, mainVars, sideVars>>

ApplyChatFrontmatter ==
  /\ ~fnDone /\ fnCall.name = "buildChatReferenceFrontmatter"
  /\ fnOut' = buildChatReferenceFrontmatter(fnCall.url, fnCall.rawContentPath,
                 <<RAW_CONTENT_PATH_PREFIX, "/", "chat-", "claude", "_", "0a1b2c3d", ".md">>,
                 <<"Work">>, fnCall.hasRaw, "claude", ChatExtraction(<<>>, 0))
  /\ fnDone' = TRUE
  /\ UNCHANGED <<fnCall, mainVars, sideVars>>

ApplyChatExtraction ==
  /\ ~fnDone /\ fnCall.name = "ChatExtraction"
  /\ fnOut' = ChatExtraction(dedupeTurns(fnCall.turns), fnCall.rawChars)
  /\ fnDone' = TRUE
  /\ UNCHANGED <<fnCall, mainVars, sideVars>>

\* dedupeTurns, and dedupeTurns on its own result
ApplyDedupeTurns ==
  /\ ~fnDone /\ fnCall.name = "dedupeTurns"
  /\ fnOut' = [once |-> dedupeTurns(fnCall.turns), twice |-> dedupeTurns(dedupeTurns(fnCall.turns))]
  /\ fnDone' = TRUE
  /\ UNCHANGED <<fnCall, mainVars, sideVars>>

ApplyExtraction ==
  /\ ~fnDone /\ fnCall.name \in ExtractionFns
  /\ fnOut' =
       CASE fnCall.name = "getSelectedTextInTab" ->
              getSelectedTextInTab(fnCall.url, fnCall.discarded, fnCall.page)
         [] fnCall.name = "fetchTabBodyText" ->
              fetchTabBodyText(fnCall.url, fnCall.discarded, fnCall.page)
         [] fnCall.name = "fetchTabBodyAndLinks" ->
              fetchTabBodyAndLinks(fnCall.url, fnCall.discarded, fnCall.page)
         [] fnCall.name = "fetchTabImages" ->
              fetchTabImages(fnCall.url, fnCall.discarded, fnCall.page)
         [] fnCall.name = "fetchChatContent" ->
              fetchChatContent(fnCall.url, fnCall.discarded, fnCall.page)
  /\ fnDone' = TRUE
  /\ UNCHANGED <<fnCall, mainVars, sideVars>>

\* the links of a page, then lines 2408-2416 on what fetchTabBodyAndLinks
\* makes of them
ApplyLinkExtraction ==
  /\ ~fnDone /\ fnCall.name = "extractBodyTextAndLinksInPage"
  /\ LET page == extractBodyTextAndLinksInPage(fnCall.bodyText, fnCall.anchors)
         got == fetchTabBodyAndLinks(URL_WEB, FALSE, RETURNS(page)).result
     IN fnOut' = [links |-> page.links,
                  extractedUrls |-> ExtractedUrlsOf(got.bodyText, got.links)]
  /\ fnDone' = TRUE
  /\ UNCHANGED <<fnCall, mainVars, sideVars>>

ApplyThreadExtraction ==
  /\ ~fnDone /\ fnCall.name = "extractTwitterThreadInPage"
  /\ fnOut' = extractTwitterThreadInPage(fnCall.articles)
  /\ fnDone' = TRUE
  /\ UNCHANGED <<fnCall, mainVars, sideVars>>

FnNext ==
  \/ ApplyAppendUrls
  \/ ApplyPlaceholder
  \/ ApplyClipFrontmatter
  \/ ApplyChatFrontmatter
  \/ ApplyChatExtraction
  \/ ApplyDedupeTurns
  \/ ApplyExtraction
  \/ ApplyLinkExtraction
  \/ ApplyThreadExtraction

FnSpec == FnInit /\ [][FnNext]_vars

----------------------------------------------------------------------------
(* Properties of the pure functions (checked under FnSpec) *)

\* the ratio of the role counts is beyond 3:1
BeyondThreeToOne(u, a) == Max2(u, a) > 3 * Min2(u, a)

\* C5: over the deduplicated turns, low_turn_count is set iff the turn count
\* is below 4, short_raw_text iff the raw character count is below 80 and
\* biased_roles (stated here for a chat with turns of both roles) iff the
\* role counts are imbalanced beyond 3:1; a chat with at least 4 turns, at
\* least 80 raw characters and a ratio of at most 3:1 (exactly 3:1 included)
\* gets no warning and extraction_partial false.
C5_ChatDiagnostics ==
  (fnDone /\ fnCall.name = "ChatExtraction") =>
    LET turns == dedupeTurns(fnCall.turns)
        n == Len(turns)
        u == CountRole(turns, "User")
        a == CountRole(turns, "Assistant")
        w == {fnOut.warnings[i] : i \in 1..Len(fnOut.warnings)}
    IN /\ ("low_turn_count" \in w) <=> (n < 4)
       /\ ("short_raw_text" \in w) <=> (fnCall.rawChars < 80)
       /\ (u >= 1 /\ a >= 1) => (("biased_roles" \in w) <=> BeyondThreeToOne(u, a))
       /\ (n >= 4 /\ fnCall.rawChars >= 80 /\ ~BeyondThreeToOne(u, a))
            => (w = {} /\ ~fnOut.partial)

FrontmatterCalls == {"buildPlaceholderSummaryMd", "buildClipFrontmatter", "buildChatReferenceFrontmatter"}

\* C8: every frontmatter built declares raw_policy exactly once, as stored or
\* url_only; a placeholder note built with no raw path or with the unset
\* marker declares url_only, one built with a raw path declares stored.
C8_RawPolicy ==
  (fnDone /\ fnCall.name \in FrontmatterCalls) =>
    /\ FmCount(fnOut, "raw_policy: ") = 1
    /\ FmValues(fnOut, "raw_policy: ") \subseteq {"stored", "url_only"}
    /\ fnCall.name = "buildPlaceholderSummaryMd" =>
         IF fnCall.rawContentPath = None \/ fnCall.rawContentPath = Some(<<UNSET>>)
         THEN FmValues(fnOut, "raw_policy: ") = {"url_only"}
         ELSE FmValues(fnOut, "raw_policy: ") = {"stored"}

\* C8 witness: a placeholder was built with the unset marker as its raw path
C8_Witness ==
  /\ fnDone
  /\ fnCall.name = "buildPlaceholderSummaryMd"
  /\ fnCall.rawContentPath = Some(<<UNSET>>)
  /\ "url_only" \in FmValues(fnOut, "raw_policy: ")

RECURSIVE UrlLinesText(_)
\* "\n- u" for each URL, in order
UrlLinesText(urls) ==
  IF Len(urls) = 0 THEN <<>>
  ELSE <<NL, "- ">> \o Head(urls) \o UrlLinesText(Tail(urls))

\* out is md with the URL lines inserted at offset k and nothing else changed
InsertedAt(md, out, urls, k) ==
  out = Slice(md, 0, k) \o UrlLinesText(urls) \o Slice(md, k, Len(md))

HasPointsHeading(md) == \E p \in 0..Len(md) : OccursAt(md, POINTS_HEADING, p)

\* offset h starts a line that is a level-2 heading
HeadingLineAt(md, h) ==
  /\ OccursAt(md, <<"#", "#", " ">>, h)
  /\ h = 0 \/ md[h] = NL

EmptyResult(fn) ==
  CASE fn \in {"getSelectedTextInTab", "fetchTabBodyText"} -> None
    [] fn = "fetchTabBodyAndLinks" -> [bodyText |-> None, links |-> <<>>]
    [] fn = "fetchTabImages" -> <<>>
    [] fn = "fetchChatContent" -> EmptyChat

\* C11: called for a tab that is discarded, or whose URL is not http(s), or
\* whose URL is a page of the Chrome web store, each extraction function
\* (selected text, body text, body and links, images, chat content) returns
\* its empty result and has not called executeScript.
C11_UninjectableReturnsEmpty ==
  (/\ fnDone
   /\ fnCall.name \in ExtractionFns
   /\ \/ fnCall.discarded
      \/ fnCall.url \in {URL_CHROME, URL_NONE}
      \/ fnCall.url = URL_WEBSTORE)
  => /\ fnOut.result = EmptyResult(fnCall.name)
     /\ ~fnOut.injected

\* a discarded chat tab whose page would have given a conversation
C11_Witness ==
  /\ fnDone
  /\ fnCall.name = "fetchChatContent"
  /\ fnCall.discarded
  /\ fnCall.url = URL_CLAUDE
  /\ fnCall.page = RETURNS(GoodChat)
  /\ fnOut = NotInjected(EmptyChat)

\* the later posts that the result takes up: same author as the first
\* post, and a text
SameAuthorPosts(articles) ==
  {i \in 2..Len(articles) :
     getAuthor(articles[i]) = getAuthor(articles[1]) /\ getText(articles[i]) # <<>>}

HasStatusLink(art) == IsSome(art.link) /\ \E k \in 1..Len(Get(art.link)) : Get(art.link)[k] = "/status/"

\* C19: the thread extraction returns the text of the first post, then the
\* texts of the later posts that have the first post's author (posts without
\* text add nothing), in page order, joined by the horizontal-rule marker;
\* when the first post has no author link, or its link contains /status/,
\* the result is the text of the first post alone.
C19_ThreadSameAuthor ==
  (fnDone /\ fnCall.name = "extractTwitterThreadInPage") =>
    LET articles == fnCall.articles
        order == SeqOfSet(SameAuthorPosts(articles))
    IN IF articles = <<>> THEN fnOut = <<>>
       ELSE IF ~IsSome(articles[1].link) \/ HasStatusLink(articles[1])
       THEN fnOut = getText(articles[1])
       ELSE /\ fnOut = Join(<<getText(articles[1])>> \o [k \in 1..Len(order) |-> getText(articles[order[k]])],
                            <<THREAD_SEP>>)
            /\ \A i \in 2..Len(articles) : HasStatusLink(articles[i]) => i \notin SameAuthorPosts(articles)

\* a page whose second post is by another author and whose third post is by
\* the first one, linked with a capital letter and a closing slash
C19_Witness ==
  /\ fnDone /\ fnCall.name = "extractTwitterThreadInPage"
  /\ Len(fnCall.articles) = 3
  /\ fnCall.articles[1] = [link |-> Some(<<"/", "alice">>), tweetText |-> Some(<<"one">>)]
  /\ fnCall.articles[2] = [link |-> Some(<<"/", "bob">>), tweetText |-> Some(<<"one">>)]
  /\ fnCall.articles[3] = [link |-> Some(<<"/", "Alice", "/">>), tweetText |-> Some(<<"two", " ">>)]
  /\ fnOut = <<"one", THREAD_SEP, "two">>

\* the href of the Obsidian link "[label](href)"
HrefOf(link) == link[4]

\* the position in anchors of the first anchor with this href that is not excluded
FirstAnchor(anchors, href) ==
  Min({k \in 1..Len(anchors) : anchors[k].href = href /\ ~anchors[k].excluded} \cup {Len(anchors) + 1})

\* C20: the link extraction returns at most 30 links, no two of them with
\* the same href, in document order; the extracted URLs of a tab are these
\* links followed by URLs of the body text, none of them an href that line
\* 2414 reads from the links, and are never more than 30.
C20_LinksCapped ==
  (fnDone /\ fnCall.name = "extractBodyTextAndLinksInPage") =>
    LET links == fnOut.links
        urls == fnOut.extractedUrls
        anchors == fnCall.anchors
    IN /\ Len(links) <= 30
       /\ \A i, j \in 1..Len(links) : i < j =>
            /\ HrefOf(links[i]) # HrefOf(links[j])
            /\ FirstAnchor(anchors, HrefOf(links[i])) < FirstAnchor(anchors, HrefOf(links[j]))
       /\ \A i \in 1..Len(links) : FirstAnchor(anchors, HrefOf(links[i])) <= Len(anchors)
       /\ Len(urls) <= 30
       /\ \A i \in 1..Len(urls) :
            IF i <= Len(links) THEN urls[i] = links[i]
            ELSE /\ HrefOf(urls[i]) \in {BODY_URL_1, BODY_URL_2}
                 /\ \E k \in 1..Len(fnCall.bodyText) : fnCall.bodyText[k] = HrefOf(urls[i])
                 /\ \A k \in 1..Len(links) : hrefFromObsidianLink(links[k]) # Some(HrefOf(urls[i]))

\* more than 30 anchors with different hrefs, some repeated: 30 links, and
\* the URLs of the body text do not fit any more
C20_Witness ==
  /\ fnDone /\ fnCall.name = "extractBodyTextAndLinksInPage"
  /\ Cardinality({fnCall.anchors[k].href : k \in 1..Len(fnCall.anchors)}) > 30
  /\ \E i, j \in 1..Len(fnCall.anchors) : i # j /\ fnCall.anchors[i].href = fnCall.anchors[j].href
  /\ fnCall.bodyText # <<>>
  /\ Len(fnOut.links) = 30
  /\ Len(fnOut.extractedUrls) = 30

\* the role of a turn with its text, white space runs made one space and
\* the ends trimmed
NormalizedTurn(t) == <<t.role, Trim(CollapseSpaces(t.text))>>

\* the turns of the input that have a text and no earlier turn like them
FirstOccurrences(turns) ==
  {i \in 1..Len(turns) :
     /\ Trim(turns[i].text) # <<>>
     /\ \A j \in 1..(i - 1) : NormalizedTurn(turns[j]) # NormalizedTurn(turns[i])}

\* C21: dedupeTurns returns no two turns with the same role and
\* white-space-normalized text; it keeps the first occurrence of each, in
\* the original order, with its text trimmed; it drops the turns with an
\* empty text; applied to its own result it changes nothing.
C21_DedupeTurns ==
  (fnDone /\ fnCall.name = "dedupeTurns") =>
    LET out == fnOut.once
        order == SeqOfSet(FirstOccurrences(fnCall.turns))
    IN /\ \A i, j \in 1..Len(out) : i # j => NormalizedTurn(out[i]) # NormalizedTurn(out[j])
       /\ \A i \in 1..Len(out) : out[i].text # <<>>
       /\ out = [k \in 1..Len(order) |->
                   [role |-> fnCall.turns[order[k]].role, text |-> Trim(fnCall.turns[order[k]].text)]]
       /\ fnOut.twice = out

\* a blank turn, then a turn, then the same turn with other white space
C21_Witness ==
  /\ fnDone /\ fnCall.name = "dedupeTurns"
  /\ fnCall.turns = <<[role |-> "User", text |-> <<" ">>],
                      [role |-> "User", text |-> <<"a", " ", " ", "b">>],
                      [role |-> "User", text |-> <<"a", " ", "b">>]>>
  /\ fnOut.once = <<[role |-> "User", text |-> <<"a", " ", " ", "b">>]>>

----------------------------------------------------------------------------
(* The save: operators on the tab copies *)

\* JavaScript truthiness of an optional string
Truthy(o) == IsSome(o) /\ Get(o) # <<>>

\* what uid8() can return: 8 hex characters of a random UUID, with no
\* check against the ids drawn before
Uids == {"0a1b2c3d", "deadbeef"}

\* the mutant: the tab record itself, which keeps the id of the save before
TabCopy_KeepsId(t) ==
  [id |-> t, title |-> tabs[t].title, url |-> tabs[t].url,
   discarded |-> tabs[t].discarded, chatService |-> tabs[t].chatService,
   uid8 |-> Some("0a1b2c3d"), baseForFilename |-> None, extractedUrls |-> None,
   rawFilename |-> None, rawContent |-> None, rawContentPathForSummary |-> None,
   pageImageUrls |-> None, capturedImages |-> None,
   chatRawFilename |-> None, chatRawContent |-> None,
   summaryFilename |-> None, summaryContent |-> None, summaryVaultDir |-> None]

\* lines 2200-2207: the copy of a tab that getSelectedTabsByWindow makes
TabCopy(t) ==
  [id |-> t, title |-> tabs[t].title, url |-> tabs[t].url,
   discarded |-> tabs[t].discarded, chatService |-> tabs[t].chatService,
   uid8 |-> None, baseForFilename |-> None, extractedUrls |-> None,
   rawFilename |-> None, rawContent |-> None, rawContentPathForSummary |-> None,
   pageImageUrls |-> None, capturedImages |-> None,
   chatRawFilename |-> None, chatRawContent |-> None,
   summaryFilename |-> None, summaryContent |-> None, summaryVaultDir |-> None]

\* the mutant: a fallback note name without the id
NoteFilename_NoUid(base, uid) == <<"p-">> \o base \o <<".md">>

\* `p-${base}_${uid}.md` (lines 1842, 2065, 2068, 2126, 2173, 2484)
NoteFilename(base, uid) == <<"p-">> \o base \o <<"_", uid, ".md">>

\* lines 2417-2423
WithBody(r, uid, base, bodyText, links) ==
  LET withIds == [r EXCEPT !.uid8 = Some(uid), !.baseForFilename = Some(base),
                           !.extractedUrls = Some(ExtractedUrlsOf(bodyText, links))]
  IN IF IsSome(bodyText) /\ Len(Get(bodyText)) > 0
     THEN [withIds EXCEPT
             !.rawFilename = Some(<<"p-">> \o base \o <<"_", uid, ".txt">>),
             !.rawContent = bodyText,
             !.rawContentPathForSummary =
                Some(<<RAW_CONTENT_PATH_PREFIX, "/", "p-">> \o base \o <<"_", uid, ".txt">>)]
     ELSE [withIds EXCEPT !.rawContentPathForSummary = Some(<<UNSET>>)]

\* lines 2039-2041: the frontmatter runUrlSummaryForTab builds
UrlSummaryFrontmatter(r, label) ==
  LET rawPath == IF IsSome(r.rawContentPathForSummary)
                 THEN Get(r.rawContentPathForSummary) ELSE <<UNSET>>
  IN buildClipFrontmatter(r.url, rawPath, label, rawPath # <<UNSET>>)

\* lines 2060-2066: the note of a summary that was generated and parsed; ai
\* is what the summary library returned: the short title and the body of
\* buildSummaryMdFromJson
UrlSummaryNote(r, label, ai) ==
  [summaryFilename |-> NoteFilename(ai.base, Get(r.uid8)),
   summaryContent |->
     appendUrlsToPointsSection(UrlSummaryFrontmatter(r, label) \o <<NL, NL>> \o ai.body,
                               IF IsSome(r.extractedUrls) THEN Get(r.extractedUrls) ELSE <<>>)]

\* lines 2068-2070 and 2484-2485: the note when the summary failed
UntitledNote_FreshId(r, label) ==
  [summaryFilename |-> NoteFilename(<<"untitled">>, "ffffffff"),
   summaryContent |-> buildPlaceholderSummaryMd(r, r.rawContentPathForSummary, Some(label))]

UntitledNote(r, label) ==
  [summaryFilename |-> NoteFilename(<<"untitled">>, Get(r.uid8)),
   summaryContent |-> buildPlaceholderSummaryMd(r, r.rawContentPathForSummary, Some(label))]

\* lines 1838-1844, for one tab
PlaceholderNamed(r, label) ==
  LET base == IF IsSome(r.baseForFilename) THEN Get(r.baseForFilename) ELSE getBaseForTab(r.title)
  IN [r EXCEPT
        !.summaryFilename = Some(NoteFilename(base, Get(r.uid8))),
        !.summaryContent = Some(buildPlaceholderSummaryMd(r, r.rawContentPathForSummary, Some(label))),
        !.summaryVaultDir = Some(IF IsSome(r.chatService) THEN VAULT_REFERENCE_DIR ELSE VAULT_CLIP_DIR)]

addPlaceholderFilenames(rs, label) == [t \in DOMAIN rs |-> PlaceholderNamed(rs[t], label)]

\* buildChatRawContentMd
buildChatRawContentMd(chat, url, service) ==
  <<"---", NL, "kind: ", "raw_chat", NL, "created_at: ", TODAY, NL, "updated_at: ", TODAY, NL,
    "source: ", "tabReaper", NL, "service: ", service, NL,
    "url: ", "\"", url, "\"", NL, "normalized_url: ", "\"", url, "\"", NL,
    "chars: ", ToString(chat.rawChars), NL, "---", NL>> \o chat.rawText

\* lines 2444-2446
WithChatRaw(r, chat) ==
  LET name == <<"chat-", Get(r.chatService), "_", Get(r.uid8), ".md">>
  IN [r EXCEPT !.chatRawFilename = Some(name),
               !.chatRawContent = Some(buildChatRawContentMd(chat, r.url, Get(r.chatService)))]

\* lines 2083-2112: what runChatDistillForTab computes before the AI request
ChatFrontmatter(r, label, chat) ==
  LET rawPath == IF IsSome(r.rawContentPathForSummary)
                 THEN Get(r.rawContentPathForSummary) ELSE <<UNSET>>
  IN buildChatReferenceFrontmatter(r.url, rawPath,
       <<RAW_CONTENT_PATH_PREFIX, "/">> \o Get(r.chatRawFilename), label,
       rawPath # <<UNSET>>, Get(r.chatService),
       ChatExtraction(dedupeTurns(chat.turns), chat.rawChars))

\* the mutant: the conversation is left out of the note
ConversationMd_Empty(chat) == <<>>

\* lines 2084-2085
ConversationMd(chat) ==
  IF Len(dedupeTurns(chat.turns)) > 0 THEN formatChatTurns(dedupeTurns(chat.turns)) ELSE chat.rawText

\* lines 2166-2170: the block that closes the distilled sections
ChatFooter(r) ==
  <<"---", NL, "url: ", r.url, NL, "raw_content: ">>
    \o (IF IsSome(r.rawContentPathForSummary) THEN Get(r.rawContentPathForSummary) ELSE <<UNSET>>)
    \o <<NL, "created_at: ", TODAY, NL, "raw_pagetitle: ">>
    \o (IF IsSome(r.title) /\ Trim(Get(r.title)) # <<>> THEN Trim(Get(r.title)) ELSE <<NO_TITLE>>)
    \o <<NL, "linked_from: ", "tabReaper", NL, "---">>

\* lines 2123-2171: the note of a distillation that was generated and parsed;
\* ai is the parsed answer, here one whose lessons, long summary, topics and
\* tags are empty
ChatDistillNote(r, label, chat, ai) ==
  [summaryFilename |-> NoteFilename(ai.base, Get(r.uid8)),
   summaryContent |->
     ChatFrontmatter(r, label, chat) \o <<NL, NL>> \o H2(POINTS) \o <<NL>> \o ai.points
       \o <<NL, NL>> \o H2(SUMMARY) \o <<NL>> \o ai.summary
       \o <<NL, NL>> \o H2("Lessons") \o <<NL, "- ", DISTILL_NOT_FETCHED>>
       \o <<NL, NL>> \o H2("Details") \o <<NL, DISTILL_NOT_FETCHED>>
       \o <<NL, NL>> \o H2("Topics") \o <<NL, "- ", DISTILL_NOT_FETCHED>>
       \o <<NL, NL, "#", "#", "#", " ", "tags", NL, UNSET>>
       \o <<NL, NL>> \o ChatFooter(r)
       \o <<NL, NL>> \o H2(CONVERSATION) \o <<NL>> \o ConversationMd(chat) \o <<NL>>]

\* lines 2172-2183: the note when the distillation failed
ChatFallbackNote(r, label, chat) ==
  [summaryFilename |-> NoteFilename(<<"chat">>, Get(r.uid8)),
   summaryContent |->
     ChatFrontmatter(r, label, chat) \o <<NL, NL>> \o H2(POINTS) \o <<NL, "- ", DISTILL_NOT_FETCHED>>
       \o <<NL, NL>> \o H2(CONVERSATION) \o <<NL>> \o ConversationMd(chat) \o <<NL>>]

WithNote(r, note, dir) ==
  [r EXCEPT !.summaryFilename = Some(note.summaryFilename),
            !.summaryContent = Some(note.summaryContent),
            !.summaryVaultDir = Some(dir)]

RECURSIVE TrimEnd(_)
TrimEnd(s) ==
  IF Len(s) > 0 /\ s[Len(s)] \in {NL, " "} THEN TrimEnd(SubSeq(s, 1, Len(s) - 1)) ELSE s

\* images: a sequence of [filename, alt, videoUrl]
appendImagesSectionToMd(md, images) ==
  IF Len(images) = 0 THEN md
  ELSE TrimEnd(md) \o <<NL, NL>> \o H2(IMAGES) \o <<NL>>
         \o Join([i \in 1..Len(images) |->
                    <<"![[">> \o images[i].filename \o <<"]]">>
                      \o (IF IsSome(images[i].videoUrl)
                          THEN <<NL, "[video](", Get(images[i].videoUrl), ")">> ELSE <<>>)],
                 <<NL>>)
         \o <<NL>>

\* the mutant: the images section lists every image of the page
WithImages_EveryImage(r, images) ==
  LET urls == IF IsSome(r.pageImageUrls) THEN Get(r.pageImageUrls) ELSE <<>>
      all == [j \in 1..Len(urls) |->
                [filename |-> <<"img-", Get(r.uid8), "_", ToString(j - 1), ".", "png">>,
                 alt |-> urls[j].alt, videoUrl |-> urls[j].videoUrl]]
      kept == [r EXCEPT !.capturedImages = Some(images)]
  IN IF Len(all) > 0 /\ Truthy(r.summaryContent)
     THEN [kept EXCEPT !.summaryContent = Some(appendImagesSectionToMd(Get(r.summaryContent), all))]
     ELSE kept

\* lines 2518-2521
WithImages(r, images) ==
  LET kept == [r EXCEPT !.capturedImages = Some(images)]
  IN IF Len(images) > 0 /\ Truthy(r.summaryContent)
     THEN [kept EXCEPT !.summaryContent = Some(appendImagesSectionToMd(Get(r.summaryContent), images))]
     ELSE kept

\* the mutant: only the chat logs are PUT
RawQueue_ChatsOnly(f, rs) ==
  LET chats == SelectSeq(f, LAMBDA t : Truthy(rs[t].chatRawFilename) /\ Truthy(rs[t].chatRawContent))
  IN [k \in 1..Len(chats) |-> [kind |-> "chatRaw", tab |-> chats[k],
                                 path |-> <<VAULT_RAW_DIR, "/">> \o Get(rs[chats[k]].chatRawFilename)]]

\* saveRawToVault: the files it PUTs, in order
RawQueue(f, rs) ==
  LET raws == SelectSeq(f, LAMBDA t : Truthy(rs[t].rawFilename) /\ Truthy(rs[t].rawContent))
      chats == SelectSeq(f, LAMBDA t : Truthy(rs[t].chatRawFilename) /\ Truthy(rs[t].chatRawContent))
  IN [k \in 1..Len(raws) |-> [kind |-> "raw", tab |-> raws[k],
                               path |-> <<VAULT_RAW_DIR, "/">> \o Get(rs[raws[k]].rawFilename)]]
     \o [k \in 1..Len(chats) |-> [kind |-> "chatRaw", tab |-> chats[k],
                                   path |-> <<VAULT_RAW_DIR, "/">> \o Get(rs[chats[k]].chatRawFilename)]]

\* saveTabSummariesToVault: the tabs whose note it PUTs, in order (line 2290)
SummaryQueue(f, rs) ==
  SelectSeq(f, LAMBDA t : Truthy(rs[t].summaryFilename) /\ Truthy(rs[t].summaryContent))

\* line 2292
SummaryDir(r) ==
  IF IsSome(r.summaryVaultDir) THEN Get(r.summaryVaultDir)
  ELSE IF IsSome(r.chatService) THEN VAULT_REFERENCE_DIR ELSE VAULT_CLIP_DIR

\* t.summaryFilename.replace(/\.md$/i, "")
StripMd(name) == IF Len(name) > 0 /\ name[Len(name)] = ".md" THEN SubSeq(name, 1, Len(name) - 1) ELSE name

\* the mutant: the failed note writes are ignored
UseUrl_Never(failedSummaryTabIds, id) == FALSE

\* line 2334
UseUrl(failedSummaryTabIds, id) == id \in failedSummaryTabIds

\* lines 2333-2339: the line of one tab
DayIndexLine(r, failedSummaryTabIds) ==
  LET link == IF ~UseUrl(failedSummaryTabIds, r.id) /\ Truthy(r.summaryFilename)
              THEN <<"[[">> \o StripMd(Get(r.summaryFilename)) \o <<"]]">>
              ELSE <<"[">> \o (IF Truthy(r.title) THEN Get(r.title) ELSE <<NO_TITLE>>)
                     \o <<"](", r.url, ")">>
  IN <<TAB, "- ">> \o link

\* the lines of the entry; byWindow has one element per window with a
\* selected tab, and the popup has one window
buildDayIndexEntry(f, rs, label, failedSummaryTabIds) ==
  << <<"[[", todayDate, "]]">> >>
    \o (IF Len(f) = 0 THEN <<>>
        ELSE << <<"- ">> \o label >>
               \o [k \in 1..Len(f) |-> DayIndexLine(rs[f[k]], failedSummaryTabIds)])

----------------------------------------------------------------------------
(* The save: what the browser, the page scripts and the services answer *)

\* the tabs of the window: at the odd positions a web page, loaded or
\* discarded, at the even positions a post on X with the same title or a chat
TabProfiles(t) ==
  IF t % 2 = 1
  THEN { TabOf(Some(<<"Doc">>), URL_WEB, FALSE), TabOf(Some(<<"Doc">>), URL_WEB, TRUE) }
  ELSE { TabOf(Some(<<"Doc">>), URL_X, FALSE), TabOf(None, URL_CLAUDE, FALSE) }

Windows ==
  {w \in [1..NumTabs -> UNION {TabProfiles(t) : t \in 1..NumTabs}] :
     \A t \in 1..NumTabs : w[t] \in TabProfiles(t)}

\* results of extractBodyTextAndLinksInPage after fetchTabBodyAndLinks: nothing,
\* or a text with two URLs, one of them also a link of the body container
BodyOutcomes ==
  { [bodyText |-> None, links |-> <<>>],
    [bodyText |-> Some(<<"see", " ", BODY_URL_1, " ", BODY_URL_2>>),
     links |-> <<ObsidianLink("y", BODY_URL_2)>>] }

\* results of fetchTabImages
ImageLists ==
  { <<>>, <<[src |-> "https://foo.bar/a.png", alt |-> "a", videoUrl |-> None]>> }

\* results of fetchChatContent
ChatContents == {EmptyChat, GoodChat}

\* a summary that generateSummaryJson returned and parseSummaryJson accepted:
\* its short title and the body buildSummaryMdFromJson makes of it
AiSummaries ==
  { [base |-> <<"Short">>,
     body |-> H2(POINTS) \o <<NL, "- ", "point", NL, NL>> \o H2(SUMMARY) \o <<NL, "text", NL>>] }

\* a distillation that callAI returned and parseChatDistillJson accepted
AiDistills == { [base |-> <<"Talk">>, points |-> <<"- ", "point">>, summary |-> <<"text">>] }

\* a request to the vault; uid is the id of the tab copy it is made for
Req(kind, tab, uid, path, ok) ==
  [kind |-> kind, tab |-> tab, uid |-> uid, path |-> path, ok |-> ok]
Call(kind, tab, ok) == [kind |-> kind, tab |-> tab, ok |-> ok]

\* the mutant: the day index is sent like the notes
Method_AlwaysPut(kind) == "PUT"

\* the HTTP method of a request: appendVaultFile, which only appendDayIndex
\* calls, sends POST; putVaultFile and putVaultBinary send PUT
Method(kind) == IF kind = "dayIndex" THEN "POST" ELSE "PUT"

----------------------------------------------------------------------------
(* The save: where saveSelectedTabs goes next *)

Goto(p, l, rs) == [pc |-> p, loc |-> l, rec |-> rs]

\* the loop of saveTabSummariesToVault at its k-th tab, then appendDayIndex
SummariesAt(k, f, rs, l) ==
  IF k <= Len(SummaryQueue(f, rs))
  THEN Goto("putSummary", [l EXCEPT !.j = k], rs)
  ELSE Goto("appendDayIndex", l, rs)

\* the mutant: the day index is appended before anything is written
WriteStart_IndexFirst(f, rs, l) == Goto("appendDayIndex", l, rs)

\* line 2526
WriteStart(f, rs, l) ==
  IF Len(RawQueue(f, rs)) > 0
  THEN Goto("putRaw", [l EXCEPT !.j = 1], rs)
  ELSE SummariesAt(1, f, rs, l)

RECURSIVE Pass3At(_, _, _, _)
\* lines 2495-2497: the image loop at tab i
Pass3At(i, f, rs, l) ==
  IF i > Len(f) THEN WriteStart(f, rs, l)
  ELSE IF ~IsSome(rs[f[i]].pageImageUrls) \/ Len(Get(rs[f[i]].pageImageUrls)) = 0
  THEN Pass3At(i + 1, f, rs, l)
  ELSE Goto("image", [l EXCEPT !.i = i, !.j = 1, !.images = <<>>], rs)

\* lines 2436-2439, 2462: the summary loop at tab i
Pass2At(i, f, rs, l) ==
  IF i > Len(f) THEN Pass3At(1, f, rs, l)
  ELSE IF IsSome(rs[f[i]].chatService)
  THEN Goto("chatExtract", [l EXCEPT !.i = i], rs)
  ELSE Goto("fetchText", [l EXCEPT !.i = i, !.attempt = 0], rs)

\* lines 2435, 2491-2493
Pass2Start(f, rs, l) ==
  IF l.hasKey THEN Pass2At(1, f, rs, l)
  ELSE Pass3At(1, f, addPlaceholderFilenames(rs, l.windowLabel), l)

\* lines 2396-2402: the body loop at tab i
Pass1At(i, f, rs, l) ==
  IF i > Len(f) THEN Pass2Start(f, rs, l)
  ELSE IF rs[f[i]].discarded THEN Goto("reload", [l EXCEPT !.i = i], rs)
  ELSE Goto("body", [l EXCEPT !.i = i], rs)

\* lines 2425-2429
AfterBody(i, f, rs, l) ==
  IF l.captureImages THEN Goto("images", l, rs) ELSE Pass1At(i + 1, f, rs, l)

Step(g) == pc' = g.pc /\ loc' = g.loc /\ rec' = g.rec

CurTab == flat[loc.i]

\* the note files a log of requests PUT
NoteWrites(reqs) ==
  {[tab |-> reqs[k].tab, uid |-> reqs[k].uid, path |-> reqs[k].path] :
     k \in {n \in 1..Len(reqs) : reqs[n].kind = "note"}}

----------------------------------------------------------------------------
(* The popup *)

\* The controls of the popup are used between two saves: a save reads the
\* selection once, at getSelectedTabsByWindow, and works on its copies from
\* then on.  A second click on saveBtn while a save runs is left out.  The
\* controls and the click stop when MaxSavedTabs tab copies have been saved.
\* Every failure the environment produces (a rejected reload, a throw of
\* fetchViaJina, a failed AI request, a failed PUT or POST) counts against
\* MaxFaults.  requests, aiLog and dayIndex record what the current save
\* did; the click that starts the next save moves the note writes to written.

Init ==
  /\ tabs \in Windows
  /\ windowLabel = <<"Work">>
  /\ captureImages = FALSE
  /\ selectedTabs = {}
  /\ status = "success"
  /\ pc = "idle"
  /\ loc = LocInit
  /\ flat = <<>>
  /\ rec = <<>>
  /\ requests = <<>>
  /\ aiLog = <<>>
  /\ dayIndex = <<>>
  /\ written = {}
  /\ saves = 0
  /\ faults = 0
  /\ fnCall = <<>> /\ fnOut = <<>> /\ fnDone = FALSE
  /\ calls = <<>> /\ wait = <<>> /\ ui = <<>>

toggleTab(tabId, checked) ==
  /\ pc = "idle"
  /\ saves < MaxSavedTabs
  /\ selectedTabs' = IF checked THEN selectedTabs \cup {tabId} ELSE selectedTabs \ {tabId}
  /\ selectedTabs' # selectedTabs
  /\ UNCHANGED <<tabs, windowLabel, captureImages, status, pc, loc, flat, rec, requests,
                 aiLog, dayIndex, written, saves, faults, fnVars, sideVars>>

toggleWindow(checked) ==
  /\ pc = "idle"
  /\ saves < MaxSavedTabs
  /\ selectedTabs' = IF checked THEN DOMAIN tabs ELSE {}
  /\ selectedTabs' # selectedTabs
  /\ UNCHANGED <<tabs, windowLabel, captureImages, status, pc, loc, flat, rec, requests,
                 aiLog, dayIndex, written, saves, faults, fnVars, sideVars>>

\* line 1659
ToggleCaptureImages ==
  /\ pc = "idle"
  /\ saves < MaxSavedTabs
  /\ captureImages' = ~captureImages
  /\ UNCHANGED <<tabs, windowLabel, selectedTabs, status, pc, loc, flat, rec, requests,
                 aiLog, dayIndex, written, saves, faults, fnVars, sideVars>>

\* the popup is opened again after window.close(): fetchCurrentWindowTabs
Reopen ==
  /\ pc = "closed"
  /\ pc' = "idle"
  /\ selectedTabs' = {}
  /\ captureImages' = FALSE
  /\ status' = "success"
  /\ loc' = LocInit
  /\ UNCHANGED <<tabs, windowLabel, flat, rec, requests, aiLog, dayIndex, written,
                 saves, faults, fnVars, sideVars>>

\* the click on saveBtn: saveSelectedTabs up to its first await.  With no tab
\* selected it shows the error and returns (lines 2355-2358)
ClickSave ==
  /\ pc = "idle"
  /\ saves + Cardinality(selectedTabs) <= MaxSavedTabs
  /\ IF selectedTabs = {}
     THEN /\ saves < MaxSavedTabs
          /\ pc' = "idle"
          /\ loc' = [LocInit EXCEPT !.outcome = "noSelection"]
          /\ status' = "error"
     ELSE /\ pc' = "loadRestConfig"
          /\ loc' = [LocInit EXCEPT !.outcome = "running"]
          /\ UNCHANGED status
  /\ flat' = <<>> /\ rec' = <<>>
  /\ requests' = <<>> /\ aiLog' = <<>> /\ dayIndex' = <<>>
  /\ written' = written \cup NoteWrites(requests)
  /\ UNCHANGED <<tabs, windowLabel, captureImages, selectedTabs, saves, faults, fnVars, sideVars>>

Ended(outcome, type) ==
  /\ pc' = "idle"
  /\ loc' = [loc EXCEPT !.outcome = outcome]
  /\ status' = type

\* lines 2360-2364
LoadRestConfig ==
  /\ pc = "loadRestConfig"
  /\ \/ /\ pc' = "healthCheck" /\ status' = "info" /\ UNCHANGED loc
     \/ Ended("noConfig", "error")
  /\ UNCHANGED <<tabs, windowLabel, captureImages, selectedTabs, flat, rec, requests,
                 aiLog, dayIndex, written, saves, faults, fnVars, sideVars>>

\* the mutant: the save goes on after a failed health check
HealthCheck_GoesOn ==
  /\ pc = "healthCheck"
  /\ \/ /\ pc' = "storageGet" /\ UNCHANGED <<loc, status>>
     \/ /\ pc' = "storageGet" /\ loc' = [loc EXCEPT !.outcome = "unreachable"] /\ status' = "error"
  /\ UNCHANGED <<tabs, windowLabel, captureImages, selectedTabs, flat, rec, requests,
                 aiLog, dayIndex, written, saves, faults, fnVars, sideVars>>

\* lines 2366-2370; healthCheck catches a failed fetch and returns false
\* (part_000 lines 31-40), so the await of line 2366 does not throw
HealthCheck ==
  /\ pc = "healthCheck"
  /\ \/ /\ pc' = "storageGet" /\ UNCHANGED <<loc, status>>
     \/ Ended("unreachable", "error")
  /\ UNCHANGED <<tabs, windowLabel, captureImages, selectedTabs, flat, rec, requests,
                 aiLog, dayIndex, written, saves, faults, fnVars, sideVars>>

\* lines 2372-2394: the keys are read and the selection is copied
StorageGet ==
  /\ pc = "storageGet"
  /\ \E hasKey \in BOOLEAN :
       /\ flat' = SeqOfSet(selectedTabs)
       /\ Step(Pass1At(1, flat', [t \in selectedTabs |-> TabCopy(t)],
                       [loc EXCEPT !.hasKey = hasKey, !.windowLabel = windowLabel,
                                   !.captureImages = captureImages]))
  /\ saves' = saves + Cardinality(selectedTabs)
  /\ status' = "info"
  /\ UNCHANGED <<tabs, windowLabel, captureImages, selectedTabs, requests,
                 aiLog, dayIndex, written, faults, fnVars, sideVars>>

----------------------------------------------------------------------------
(* saveSelectedTabs, from the first pass on *)

\* line 2401: await ensureTabLoadedForBody(tab.id); chrome.tabs.reload can
\* reject (line 1367, outside any try), and nothing in saveSelectedTabs
\* catches that
Reload ==
  /\ pc = "reload"
  /\ \/ /\ pc' = "body" /\ UNCHANGED <<loc, faults>>
     \/ /\ faults < MaxFaults
        /\ faults' = faults + 1
        /\ pc' = "idle"
        /\ loc' = [loc EXCEPT !.outcome = "rejected"]
  /\ UNCHANGED <<tabs, windowLabel, captureImages, selectedTabs, status, flat, rec, requests,
                 aiLog, dayIndex, written, saves, fnVars, sideVars>>

\* lines 2403-2424
Body ==
  /\ pc = "body"
  /\ \E uid \in Uids, out \in BodyOutcomes :
       Step(AfterBody(loc.i, flat,
                      [rec EXCEPT ![CurTab] =
                         WithBody(@, uid, getBaseForTab(@.title),
                                  IF isTabUninjectable(@.url, FALSE) THEN None ELSE out.bodyText,
                                  IF isTabUninjectable(@.url, FALSE) THEN <<>> ELSE out.links)],
                      loc))
  /\ UNCHANGED <<tabs, windowLabel, captureImages, selectedTabs, status, flat, requests,
                 aiLog, dayIndex, written, saves, faults, fnVars, sideVars>>

\* lines 2426-2429
FetchTabImages ==
  /\ pc = "images"
  /\ \E imgs \in ImageLists :
       Step(Pass1At(loc.i + 1, flat,
                    [rec EXCEPT ![CurTab].pageImageUrls =
                       Some(IF isTabUninjectable(rec[CurTab].url, FALSE) THEN <<>> ELSE imgs)],
                    loc))
  /\ UNCHANGED <<tabs, windowLabel, captureImages, selectedTabs, status, flat, requests,
                 aiLog, dayIndex, written, saves, faults, fnVars, sideVars>>

\* lines 2440-2446
FetchChatContent ==
  /\ pc = "chatExtract"
  /\ \E chat \in ChatContents :
       /\ rec' = [rec EXCEPT ![CurTab] = WithChatRaw(@, chat)]
       /\ loc' = [loc EXCEPT !.chat = chat]
  /\ pc' = "distill"
  /\ UNCHANGED <<tabs, windowLabel, captureImages, selectedTabs, status, flat, requests,
                 aiLog, dayIndex, written, saves, faults, fnVars, sideVars>>

\* lines 2448-2460 with runChatDistillForTab: the request to callAI is made
\* whatever the extraction holds
RunChatDistill ==
  /\ pc = "distill"
  /\ \/ /\ \E ai \in AiDistills :
             Step(Pass2At(loc.i + 1, flat,
                          [rec EXCEPT ![CurTab] =
                             WithNote(@, ChatDistillNote(@, loc.windowLabel, loc.chat, ai),
                                      VAULT_REFERENCE_DIR)],
                          loc))
        /\ aiLog' = Append(aiLog, Call("callAI", CurTab, TRUE))
        /\ UNCHANGED faults
     \/ /\ faults < MaxFaults
        /\ faults' = faults + 1
        /\ Step(Pass2At(loc.i + 1, flat,
                        [rec EXCEPT ![CurTab] =
                           WithNote(@, ChatFallbackNote(@, loc.windowLabel, loc.chat),
                                    VAULT_REFERENCE_DIR)],
                        loc))
        /\ aiLog' = Append(aiLog, Call("callAI", CurTab, FALSE))
  /\ UNCHANGED <<tabs, windowLabel, captureImages, selectedTabs, status, flat, requests,
                 dayIndex, written, saves, fnVars, sideVars>>

\* lines 2463-2489 with lines 2029-2038 of runUrlSummaryForTab: the text of
\* the page is fetched; a throw of fetchViaJina reaches the catch of the
\* retry loop
FetchText ==
  /\ pc = "fetchText"
  /\ \/ /\ isTwitterUrl(rec[CurTab].url)       \* the thread was read in the tab
        /\ pc' = "summarize"
        /\ UNCHANGED <<loc, rec, aiLog, faults>>
     \/ /\ pc' = "summarize"
        /\ aiLog' = Append(aiLog, Call("fetchViaJina", CurTab, TRUE))
        /\ UNCHANGED <<loc, rec, faults>>
     \/ /\ faults < MaxFaults
        /\ faults' = faults + 1
        /\ aiLog' = Append(aiLog, Call("fetchViaJina", CurTab, FALSE))
        /\ IF loc.attempt = MaxAttempts - 1
           THEN Step(Pass2At(loc.i + 1, flat,
                             [rec EXCEPT ![CurTab] =
                                WithNote(@, UntitledNote(@, loc.windowLabel), VAULT_CLIP_DIR)],
                             loc))
           ELSE Step(Goto("fetchText", [loc EXCEPT !.attempt = @ + 1], rec))
  /\ UNCHANGED <<tabs, windowLabel, captureImages, selectedTabs, status, flat, requests,
                 dayIndex, written, saves, fnVars, sideVars>>

\* lines 2051-2071 of runUrlSummaryForTab and 2478-2481: a failure of the
\* summary is caught inside runUrlSummaryForTab, which returns the untitled
\* note; the loop takes that for a success
GenerateSummary ==
  /\ pc = "summarize"
  /\ \/ /\ \E ai \in AiSummaries :
             Step(Pass2At(loc.i + 1, flat,
                          [rec EXCEPT ![CurTab] =
                             WithNote(@, UrlSummaryNote(@, loc.windowLabel, ai), VAULT_CLIP_DIR)],
                          loc))
        /\ aiLog' = Append(aiLog, Call("generateSummaryJson", CurTab, TRUE))
        /\ UNCHANGED faults
     \/ /\ faults < MaxFaults
        /\ faults' = faults + 1
        /\ Step(Pass2At(loc.i + 1, flat,
                        [rec EXCEPT ![CurTab] =
                           WithNote(@, UntitledNote(@, loc.windowLabel), VAULT_CLIP_DIR)],
                        loc))
        /\ aiLog' = Append(aiLog, Call("generateSummaryJson", CurTab, FALSE))
  /\ UNCHANGED <<tabs, windowLabel, captureImages, selectedTabs, status, flat, requests,
                 dayIndex, written, saves, fnVars, sideVars>>

ImageFilename(uid, j) == <<"img-", uid, "_", ToString(j), ".", "png">>

\* after image j of the current tab: the next image, or lines 2518-2521
AfterImage(images) ==
  IF loc.j < Len(Get(rec[CurTab].pageImageUrls))
  THEN Goto("image", [loc EXCEPT !.j = @ + 1, !.images = images], rec)
  ELSE Pass3At(loc.i + 1, flat, [rec EXCEPT ![CurTab] = WithImages(@, images)], loc)

\* lines 2501-2517: one image of the current tab
SaveImage ==
  /\ pc = "image"
  /\ LET img == Get(rec[CurTab].pageImageUrls)[loc.j]
         filename == ImageFilename(Get(rec[CurTab].uid8), loc.j - 1)
         path == <<VAULT_IMAGE_DIR, "/">> \o filename
     IN \/ /\ Step(AfterImage(loc.images))            \* downloadImage returned null
           /\ UNCHANGED <<requests, faults>>
        \/ /\ Step(AfterImage(Append(loc.images,
                      [filename |-> filename, alt |-> img.alt, videoUrl |-> img.videoUrl])))
           /\ requests' = Append(requests, Req("image", CurTab, Get(rec[CurTab].uid8), path, TRUE))
           /\ UNCHANGED faults
        \/ /\ faults < MaxFaults
           /\ faults' = faults + 1
           /\ Step(AfterImage(loc.images))
           /\ requests' = Append(requests, Req("image", CurTab, Get(rec[CurTab].uid8), path, FALSE))
  /\ UNCHANGED <<tabs, windowLabel, captureImages, selectedTabs, status, flat,
                 aiLog, dayIndex, written, saves, fnVars, sideVars>>

\* saveRawToVault, one PUT: a PUT that fails throws out of saveRawToVault to
\* the catch of line 2531
PutRaw ==
  /\ pc = "putRaw"
  /\ LET q == RawQueue(flat, rec)
         item == q[loc.j]
     IN \/ /\ requests' = Append(requests, Req(item.kind, item.tab, Get(rec[item.tab].uid8), item.path, TRUE))
           /\ Step(IF loc.j < Len(q) THEN Goto("putRaw", [loc EXCEPT !.j = @ + 1], rec)
                   ELSE SummariesAt(1, flat, rec, loc))
           /\ status' = "info"
           /\ UNCHANGED faults
        \/ /\ faults < MaxFaults
           /\ faults' = faults + 1
           /\ requests' = Append(requests, Req(item.kind, item.tab, Get(rec[item.tab].uid8), item.path, FALSE))
           /\ Ended("saveError", "error")
           /\ UNCHANGED rec
  /\ UNCHANGED <<tabs, windowLabel, captureImages, selectedTabs, flat,
                 aiLog, dayIndex, written, saves, fnVars, sideVars>>

\* saveTabSummariesToVault, one PUT
PutSummary ==
  /\ pc = "putSummary"
  /\ LET t == SummaryQueue(flat, rec)[loc.j]
         path == <<SummaryDir(rec[t]), "/">> \o Get(rec[t].summaryFilename)
     IN \/ /\ requests' = Append(requests, Req("note", t, Get(rec[t].uid8), path, TRUE))
           /\ Step(SummariesAt(loc.j + 1, flat, rec, loc))
           /\ UNCHANGED faults
        \/ /\ faults < MaxFaults
           /\ faults' = faults + 1
           /\ requests' = Append(requests, Req("note", t, Get(rec[t].uid8), path, FALSE))
           /\ Step(SummariesAt(loc.j + 1, flat, rec, [loc EXCEPT !.failed = @ \cup {t}]))
  /\ status' = "info"
  /\ UNCHANGED <<tabs, windowLabel, captureImages, selectedTabs, flat,
                 aiLog, dayIndex, written, saves, fnVars, sideVars>>

\* appendDayIndex and lines 2529-2534
AppendDayIndex ==
  /\ pc = "appendDayIndex"
  /\ \/ /\ requests' = Append(requests, Req("dayIndex", 0, "", <<DAY_INDEX_PATH>>, TRUE))
        /\ dayIndex' = buildDayIndexEntry(flat, rec, loc.windowLabel, loc.failed)
        /\ pc' = "closed"
        /\ loc' = [loc EXCEPT !.outcome = "saved"]
        /\ status' = "success"
        /\ UNCHANGED faults
     \/ /\ faults < MaxFaults
        /\ faults' = faults + 1
        /\ requests' = Append(requests, Req("dayIndex", 0, "", <<DAY_INDEX_PATH>>, FALSE))
        /\ Ended("saveError", "error")
        /\ UNCHANGED dayIndex
  /\ UNCHANGED <<tabs, windowLabel, captureImages, selectedTabs, flat, rec,
                 aiLog, written, saves, fnVars, sideVars>>

Next ==
  \/ \E t \in DOMAIN tabs, checked \in BOOLEAN : toggleTab(t, checked)
  \/ \E checked \in BOOLEAN : toggleWindow(checked)
  \/ ToggleCaptureImages
  \/ Reopen
  \/ ClickSave
  \/ LoadRestConfig
  \/ HealthCheck
  \/ StorageGet
  \/ Reload
  \/ Body
  \/ FetchTabImages
  \/ FetchChatContent
  \/ RunChatDistill
  \/ FetchText
  \/ GenerateSummary
  \/ SaveImage
  \/ PutRaw
  \/ PutSummary
  \/ AppendDayIndex

Spec == Init /\ [][Next]_vars

----------------------------------------------------------------------------
(* Properties of the save *)

ReqIdx(kind) == {n \in 1..Len(requests) : requests[n].kind = kind}

\* the save got as far as the write stage and is over
WriteStageOver == loc.outcome \in {"saved", "saveError"}

\* the save is over, however it ended after copying the selection
SaveOver == loc.outcome \in {"saved", "saveError", "rejected"}

\* C1: when one vault write of a save fails, only that file is skipped: every
\* raw file, chat-raw file and note of the save is still PUT and the
\* day-index append is still requested.
C1_FailedWriteSkipsOnlyThatFile ==
  WriteStageOver =>
    /\ \A k \in 1..Len(RawQueue(flat, rec)) :
         \E n \in 1..Len(requests) : requests[n].path = RawQueue(flat, rec)[k].path
    /\ \A k \in 1..Len(SummaryQueue(flat, rec)) :
         \E n \in ReqIdx("note") : requests[n].tab = SummaryQueue(flat, rec)[k]
    /\ ReqIdx("dayIndex") # {}

\* C2: a failure before the write stage never cancels the batch: once the
\* save is over, and no vault write failed, every selected tab has had its
\* note PUT.
C2_PipelineFailureIsolated ==
  (SaveOver /\ \A n \in 1..Len(requests) : requests[n].ok) =>
    \A k \in 1..Len(flat) : \E n \in ReqIdx("note") : requests[n].tab = flat[k]

\* the failed attempts (text fetch or summary) made for tab t
FailedAttempts(t) == {n \in 1..Len(aiLog) : aiLog[n].tab = t /\ ~aiLog[n].ok}

\* C3: a page tab gets the placeholder note p-untitled_<id>.md of a failed
\* summary only after three failed attempts.
C3_PlaceholderAfterThreeAttempts ==
  \A t \in DOMAIN rec :
    (/\ loc.hasKey
     /\ ~IsSome(rec[t].chatService)
     /\ IsSome(rec[t].summaryFilename)
     /\ Get(rec[t].summaryFilename) = NoteFilename(<<"untitled">>, Get(rec[t].uid8)))
    => Cardinality(FailedAttempts(t)) = MaxAttempts

\* C4: for a chat tab whose extraction captured nothing (zero turns, empty
\* raw text) no AI request is made.
C4_CaptureFailureSkipsAI ==
  \A t \in DOMAIN rec :
    (IsSome(rec[t].chatRawContent) /\ "0" \in FmValues(Get(rec[t].chatRawContent), "chars: "))
    => \A n \in 1..Len(aiLog) : aiLog[n].tab # t

\* the name of the note a PUT path addresses: the path without its
\* directory and its .md
NoteNameOf(path) == SubSeq(path, 3, Len(path) - 1)

\* C6: in the day-index entry of a save, after the date line and the window
\* line, the line of each selected tab is "[[note name]]" if the PUT of the
\* tab's note succeeded and "[title](url)" if it failed.
C6_DayIndexLinks ==
  dayIndex # <<>> =>
    /\ Len(dayIndex) = 2 + Len(flat)
    /\ \A k \in 1..Len(flat) : \A n \in ReqIdx("note") :
         requests[n].tab = flat[k] =>
           dayIndex[2 + k] =
             IF requests[n].ok
             THEN <<TAB, "- ", "[[">> \o NoteNameOf(requests[n].path) \o <<"]]">>
             ELSE <<TAB, "- ", "[">>
                    \o (IF IsSome(tabs[flat[k]].title) THEN Get(tabs[flat[k]].title) ELSE <<NO_TITLE>>)
                    \o <<"](", tabs[flat[k]].url, ")">>

\* a save appended an entry for two tabs, the note of one written and the
\* note of the other failed
C6_Witness ==
  /\ dayIndex # <<>>
  /\ \E n, m \in ReqIdx("note") : requests[n].ok /\ ~requests[m].ok

\* C7 as amended: two note writes, of one save or of two, whose tab copies
\* drew different ids from uid8 target different files, even with identical
\* titles and in the fallback branches. (uid8 draws at random and checks no
\* earlier id, so two writes can draw the same id.)
C7_DistinctIdsDistinctFiles ==
  /\ \A n, m \in ReqIdx("note") :
       (n # m /\ requests[n].uid # requests[m].uid) => requests[n].path # requests[m].path
  /\ \A n \in ReqIdx("note") : \A w \in written :
       requests[n].uid # w.uid => requests[n].path # w.path

\* the same tab is saved in a second run under another id
C7_Witness ==
  \E n \in ReqIdx("note") : \E w \in written :
    /\ w.tab = requests[n].tab
    /\ w.uid # requests[n].uid
    /\ w.path # requests[n].path

\* C7 as stated: no two note writes, of one save or of two, target the same
\* file.
C7_NoteFilenamesUnique ==
  /\ \A n, m \in ReqIdx("note") : n # m => requests[n].path # requests[m].path
  /\ \A n \in ReqIdx("note") : \A w \in written : requests[n].path # w.path

\* the text of the points section of md: from the heading to the next
\* heading after a blank line, or to the end
PointsSection(md) ==
  LET p == IndexOf(md, POINTS_HEADING, 0)
      e == IndexOf(md, NEXT_SECTION, p + Len(POINTS_HEADING))
  IN IF p = -1 THEN <<>>
     ELSE Slice(md, p + Len(POINTS_HEADING), IF e = -1 THEN Len(md) ELSE e)

EndsWithLine(text, line) ==
  /\ Len(text) > Len(line)
  /\ SubSeq(text, Len(text) - Len(line), Len(text)) = <<NL>> \o line

\* C10: the note written for an ordinary web page whose body text contains
\* the URL u goes to library/clip, declares source_type web, ends its points
\* section with the line "- u", and is named p-<title>_<8 hex characters>.md.
C10_WebClipNote ==
  \A n \in ReqIdx("note") :
    LET t == requests[n].tab
    IN (/\ requests[n].ok
        /\ ~IsSome(rec[t].chatService)
        /\ detectSourceType(rec[t].url) = "web"
        /\ IsSome(rec[t].rawContent)
        /\ \E k \in 1..Len(Get(rec[t].rawContent)) : Get(rec[t].rawContent)[k] = BODY_URL_1)
       =>
       /\ requests[n].path[1] = VAULT_CLIP_DIR
       /\ FmValues(Get(rec[t].summaryContent), "source_type: ") = {"web"}
       /\ EndsWithLine(PointsSection(Get(rec[t].summaryContent)), <<"- ", BODY_URL_1>>)
       /\ \E uid \in Uids :
            /\ SubSeq(requests[n].path, 1, 3) = <<VAULT_CLIP_DIR, "/", "p-">>
            /\ SubSeq(requests[n].path, Len(requests[n].path) - 2, Len(requests[n].path))
                 = <<"_", uid, ".md">>

----------------------------------------------------------------------------
(* The order of the stages *)

\* what the copies and the log of the current save show of the stages of tab t
BodyDone(t) == t \in DOMAIN rec /\ IsSome(rec[t].uid8)
ImageUrlsDone(t) == t \in DOMAIN rec /\ IsSome(rec[t].pageImageUrls)
SummaryDone(t) == t \in DOMAIN rec /\ IsSome(rec[t].summaryFilename)
ImagesDone(t) == t \in DOMAIN rec /\ IsSome(rec[t].capturedImages)
NoteWritten(t) == \E n \in ReqIdx("note") : requests[n].tab = t
IndexAppended == ReqIdx("dayIndex") # {}

\* each stage of a tab finds the stage before it done
StagesInOrder ==
  pc # "idle" =>
  /\ \A t \in DOMAIN rec :
       /\ ImageUrlsDone(t) => (BodyDone(t) /\ loc.captureImages)
       /\ SummaryDone(t) => (BodyDone(t) /\ (loc.captureImages => ImageUrlsDone(t)))
       /\ ImagesDone(t) => (SummaryDone(t) /\ ImageUrlsDone(t))
       /\ NoteWritten(t) =>
            /\ SummaryDone(t)
            /\ (ImageUrlsDone(t) /\ Len(Get(rec[t].pageImageUrls)) > 0) => ImagesDone(t)
       /\ IndexAppended => NoteWritten(t)
  /\ pc = "reload" => ~BodyDone(CurTab)

\* the body of a discarded tab is read right after its reload
ReloadBeforeBody ==
  (pc' = "body" /\ tabs[flat'[loc'.i]].discarded) => (pc = "reload" /\ loc'.i = loc.i)

\* C12: for every selected tab the stages of a save occur in the order
\* reload (discarded tabs only), body and links, image URLs (image capture
\* only), summary or distillation, image download, PUT of the note, append
\* to the day index; the append comes after the PUT of every tab's note.
C12_StageOrder == [](StagesInOrder) /\ [][ReloadBeforeBody]_vars

\* a discarded tab went through all the stages, images included
C12_Witness ==
  /\ loc.outcome = "saved"
  /\ \E t \in DOMAIN rec :
       /\ rec[t].discarded
       /\ loc.hasKey
       /\ ImagesDone(t) /\ Len(Get(rec[t].capturedImages)) > 0
       /\ NoteWritten(t)

----------------------------------------------------------------------------
(* Clicks on saveBtn while saveSelectedTabs is running *)

\* saveBtn.addEventListener("click", saveSelectedTabs) at line 1543: the
\* listener has no guard, and saveBtn.disabled is written only at lines 1591
\* and 1733, from the size of selectedTabs. Every click therefore starts one
\* more call. A call is followed here through the awaits that every
\* http tab passes: loadRestConfig, healthCheck, chrome.storage.local.get,
\* then per tab the reload wait and the script injection of the first pass,
\* then per tab the AI request, then per tab the PUT of the note, then
\* the append to the day index; the other awaits (image and chat stages)
\* are awaited the same way and are left out.

TabOperations == {"reload", "body", "summarize", "putSummary", "appendDayIndex"}

CallAt(at, i, f) == [at |-> at, i |-> i, flat |-> f]

\* a call with the selection of the moment its click came (line 2355 reads
\* selectedTabs.size then)
Clicked(c, selected) == [at |-> c.at, i |-> c.i, flat |-> c.flat, clicked |-> selected]

\* the await a call reaches when it enters pass `at` with tab number i
RECURSIVE CallEnters(_, _, _)
CallEnters(at, i, f) ==
  IF i > Len(f)
    THEN CASE at = "body" -> CallEnters("summarize", 1, f)
           [] at = "summarize" -> CallEnters("putSummary", 1, f)
           [] OTHER -> CallAt("appendDayIndex", 0, f)
    ELSE IF at = "body" /\ tabs[f[i]].discarded
           THEN CallAt("reload", i, f)
           ELSE CallAt(at, i, f)

RemoveCall(k) == [n \in 1..(Len(calls) - 1) |-> IF n < k THEN calls[n] ELSE calls[n + 1]]

\* line 1543, then lines 2355-2360 up to the first await
saveBtnClick ==
  /\ pc = "idle"
  /\ selectedTabs # {}
  /\ Len(calls) < MaxCalls
  /\ calls' = Append(calls, Clicked(CallAt("loadRestConfig", 0, <<>>), selectedTabs))
  /\ UNCHANGED <<mainVars, fnVars, wait, ui>>

\* the awaited operation of call k settles and the call runs to its next await
Settle(k) ==
  /\ pc = "idle"
  /\ LET c == calls[k]
         goes(n) == calls' = [calls EXCEPT ![k] = Clicked(n, c.clicked)] /\ UNCHANGED selectedTabs
         returns == calls' = RemoveCall(k) /\ UNCHANGED selectedTabs
     IN CASE c.at = "loadRestConfig" -> goes(CallAt("healthCheck", 0, <<>>)) \/ returns
          [] c.at = "healthCheck" -> goes(CallAt("storageGet", 0, <<>>)) \/ returns
          [] c.at = "storageGet" -> goes(CallEnters("body", 1, SeqOfSet(selectedTabs)))
          [] c.at = "reload" -> goes(CallAt("body", c.i, c.flat)) \/ returns
          [] c.at = "body" -> goes(CallEnters("body", c.i + 1, c.flat))
          [] c.at = "summarize" -> goes(CallEnters("summarize", c.i + 1, c.flat))
          [] c.at = "putSummary" -> goes(CallEnters("putSummary", c.i + 1, c.flat))
          [] c.at = "appendDayIndex" ->
               \* window.close() at line 2530 ends every call of the popup
               \/ calls' = <<>> /\ selectedTabs' = {}
               \/ returns
  /\ UNCHANGED <<tabs, windowLabel, captureImages, status, pc, loc, flat, rec, requests,
                 aiLog, dayIndex, written, saves, faults, fnVars, wait, ui>>

ClickInit == Init

ClickNext ==
  \/ \E t \in DOMAIN tabs, checked \in BOOLEAN : toggleTab(t, checked)
  \/ saveBtnClick
  \/ \E k \in DOMAIN calls : Settle(k)

ClickSpec == ClickInit /\ [][ClickNext]_vars

\* the awaits a call passes before getSelectedTabsByWindow (line 2391)
BeforeCopy == {"loadRestConfig", "healthCheck", "storageGet"}

\* C30: the tabs a save processes and lists in the day index are exactly the
\* tabs that were selected when Save was clicked, a non-empty set, whatever
\* the user toggles while the save waits on the config load, the health
\* check or a later stage; no save appends an entry that lists no tab.
C30_SavesWhatWasClicked ==
  \A k \in DOMAIN calls :
    calls[k].at \notin BeforeCopy =>
      /\ calls[k].flat = SeqOfSet(calls[k].clicked)
      /\ calls[k].flat # <<>>

\* what holds of the code: the tabs are those selected when the await of
\* line 2372 settles, and no toggle after that changes them
C30_SavesWhatIsSelectedAtCopy ==
  /\ [][\A k \in DOMAIN calls :
          (k \in DOMAIN calls' /\ Len(calls') = Len(calls) /\ calls[k].at = "storageGet"
             /\ calls'[k].at # "storageGet")
            => calls'[k].flat = SeqOfSet(selectedTabs)]_vars
  /\ [][\A k \in DOMAIN calls :
          (k \in DOMAIN calls' /\ Len(calls') = Len(calls) /\ calls[k].at \notin BeforeCopy)
            => calls'[k].flat = calls[k].flat]_vars

\* the calls whose pending await is a tab operation
InFlight == {k \in DOMAIN calls : calls[k].at \in TabOperations}

\* C13: at most one tab operation (script injection, AI request, vault
\* request, reload wait) is in flight at any time, whatever the user does in
\* the popup, clicking Save during a save included.
C13_OneOperationInFlight == Cardinality(InFlight) <= 1

----------------------------------------------------------------------------
(* The distillation of a chat tab *)

\* the AI requests of the current save that were made for tab t
AiCalls(t, kind) == {n \in DOMAIN aiLog : aiLog[n].tab = t /\ aiLog[n].kind = kind}

\* the chat that fetchChatContent returned for tab t, read from its raw note
ChatsOf(t) ==
  {chat \in ChatContents :
     rec[t].chatRawContent = Some(buildChatRawContentMd(chat, rec[t].url, Get(rec[t].chatService)))}

\* the conversation as it was extracted: the turns, or the raw text without turns
ExtractedConversation(chat) ==
  IF chat.turns # <<>>
  THEN Join([i \in 1..Len(chat.turns) |-> <<"### ", chat.turns[i].role, NL>> \o chat.turns[i].text],
            <<NL, NL>>)
  ELSE chat.rawText

----------------------------------------------------------------------------
(* The images section of a note *)

\* the requests of the current save that stored an image of tab t, and the
\* file names they stored
StoredImages(t) == {n \in ReqIdx("image") : requests[n].tab = t /\ requests[n].ok}

\* the file names embedded in md: what stands between "![[" and "]]"
EmbeddedAt(md) == {i \in 1..Len(md) : md[i] = "![["}
EmbeddedName(md, i) ==
  LET close == Min({k \in (i + 1)..Len(md) : md[k] = "]]"} \cup {Len(md) + 1})
  IN SubSeq(md, i + 1, close - 1)

\* C15: a note that was PUT embeds an image only if a PUT of that image
\* succeeded earlier in the save; a tab without a stored image has no images
\* section in its note; image URLs are fetched and images are stored only when
\* the window's image-capture toggle is on.
C15_ImagesSectionOnlyStored ==
  loc.outcome # "none" =>
    \A t \in DOMAIN rec :
      /\ \A n \in ReqIdx("note") :
           requests[n].tab = t =>
             LET md == Get(rec[t].summaryContent)
             IN /\ \A i \in EmbeddedAt(md) :
                     \E m \in StoredImages(t) :
                       /\ m < n
                       /\ requests[m].path = <<VAULT_IMAGE_DIR, "/">> \o EmbeddedName(md, i)
                /\ StoredImages(t) = {} => IndexOf(md, H2(IMAGES), 0) = -1
      /\ (IsSome(rec[t].pageImageUrls) \/ \E n \in ReqIdx("image") : requests[n].tab = t)
           => loc.captureImages

\* a note with an images section was PUT after its image was stored, and in
\* the same save the PUT of another tab's image failed
C15_Witness ==
  /\ loc.outcome = "saved"
  /\ \E t \in DOMAIN rec :
       /\ \E n \in ReqIdx("note") : requests[n].tab = t /\ requests[n].ok
       /\ EmbeddedAt(Get(rec[t].summaryContent)) # {}
  /\ \E t \in DOMAIN rec :
       /\ \E n \in ReqIdx("image") : requests[n].tab = t /\ ~requests[n].ok
       /\ \E n \in ReqIdx("note") : requests[n].tab = t /\ requests[n].ok
       /\ IndexOf(Get(rec[t].summaryContent), H2(IMAGES), 0) = -1

----------------------------------------------------------------------------
(* The day index *)

ToDayIndex == {n \in DOMAIN requests : requests[n].path = <<DAY_INDEX_PATH>>}

\* C16: every request to library/day-index.md is an append (POST), never a
\* PUT, and one save sends at most one of them.
C16_DayIndexAppendOnly ==
  /\ \A n \in ToDayIndex : Method(requests[n].kind) = "POST"
  /\ \A n \in DOMAIN requests : Method(requests[n].kind) = "POST" => n \in ToDayIndex
  /\ Cardinality(ToDayIndex) <= 1

\* a save appended its entry after an earlier save had written notes, and
\* it had PUT a note of its own before
C16_Witness ==
  /\ written # {}
  /\ \E n \in ToDayIndex : requests[n].ok
  /\ \E n \in ReqIdx("note") : requests[n].ok

----------------------------------------------------------------------------
(* C22: a note that declares a stored raw text *)

\* the note a request of the log PUT: the content of the tab copy, which the
\* write stage does not change
NoteOf(n) == Get(rec[requests[n].tab].summaryContent)

\* the end of the line that starts at token i
RECURSIVE EndOfLine(_, _)
EndOfLine(md, i) == IF i > Len(md) \/ md[i] = NL THEN i ELSE EndOfLine(md, i + 1)

\* the paths a note names on its raw_content lines
RawContentPaths(md) ==
  {SubSeq(md, i + 1, EndOfLine(md, i) - 1) : i \in {j \in 1..Len(md) : md[j] = "raw_content: "}}

DeclaresStored(md) == "stored" \in FmValues(md, "raw_policy: ")

\* the raw text files PUT with success before request n
RawWrittenBefore(n) ==
  {requests[m].path : m \in {k \in 1..(n - 1) :
     requests[k].kind = "raw" /\ requests[k].ok /\ Method(requests[k].kind) = "PUT"}}

\* C22: every note written with success that declares raw_policy: stored
\* names, on each of its raw_content lines, the path of a raw text file that
\* was PUT with success earlier in the same save.
C22_StoredRawWritten ==
  \A n \in ReqIdx("note") :
    (requests[n].ok /\ DeclaresStored(NoteOf(n))) =>
      /\ RawContentPaths(NoteOf(n)) # {}
      /\ RawContentPaths(NoteOf(n)) \subseteq RawWrittenBefore(n)

\* two notes written in one save, one on a stored raw text and one without
C22_Witness ==
  \E n, k \in ReqIdx("note") :
    /\ requests[n].ok /\ DeclaresStored(NoteOf(n))
    /\ RawContentPaths(NoteOf(n)) \subseteq RawWrittenBefore(n)
    /\ requests[k].ok /\ ~DeclaresStored(NoteOf(k))
    /\ RawContentPaths(NoteOf(k)) = {<<UNSET>>}

----------------------------------------------------------------------------
(* C23: one note and one day-index line per selected tab *)

InWriteStage == pc \in {"putRaw", "putSummary", "appendDayIndex"} \/ WriteStageOver

NoteAssigned(t) == Truthy(rec[t].summaryFilename) /\ Truthy(rec[t].summaryContent)

NotePuts(t) == {n \in ReqIdx("note") : requests[n].tab = t}

\* the entry: the date line, the label line of the window, and one
\* tab-indented line per selected tab, a link to its note or to its page
DayIndexWellFormed ==
  /\ Len(dayIndex) = 2 + Len(flat)
  /\ dayIndex[1] = <<"[[", todayDate, "]]">>
  /\ dayIndex[2] = <<"- ">> \o loc.windowLabel
  /\ \A k \in 1..Len(flat) :
       LET r == rec[flat[k]]
       IN dayIndex[2 + k] \in
            { <<TAB, "- ", "[[">> \o StripMd(Get(r.summaryFilename)) \o <<"]]">>,
              <<TAB, "- ", "[">> \o (IF Truthy(r.title) THEN Get(r.title) ELSE <<NO_TITLE>>)
                 \o <<"](", r.url, ")">> }

\* C23: in every save that reaches the write stage each selected tab has a
\* note file name and a note content, exactly one note PUT is attempted per
\* selected tab, and the day-index entry is the date line, the label line of
\* the window and one tab-indented line per selected tab in tab order.
C23_OneNotePerTab ==
  /\ InWriteStage => \A t \in DOMAIN rec : NoteAssigned(t)
  /\ WriteStageOver => \A k \in 1..Len(flat) : Cardinality(NotePuts(flat[k])) = 1
  /\ loc.outcome = "saved" => DayIndexWellFormed

\* what holds of the code: the same, for the saves whose raw files were all
\* written
C23_OneNotePerTabAfterRaw ==
  /\ InWriteStage => \A t \in DOMAIN rec : NoteAssigned(t)
  /\ \A k \in 1..Len(flat) : Cardinality(NotePuts(flat[k])) <= 1
  /\ (WriteStageOver /\ \A n \in ReqIdx("raw") \cup ReqIdx("chatRaw") : requests[n].ok)
       => \A k \in 1..Len(flat) : Cardinality(NotePuts(flat[k])) = 1
  /\ loc.outcome = "saved" => DayIndexWellFormed

----------------------------------------------------------------------------
(* C24: the directory of a note and what a reference note declares *)

DirOf(n) == requests[n].path[1]

\* C24: a note is written under library/reference iff the URL of its tab is
\* one of a recognized chat service, and under library/clip otherwise; every
\* note written under library/reference declares source_type: chat and
\* pipeline: distill, also when no API key is configured.
C24_ReferenceNotes ==
  \A n \in ReqIdx("note") :
    /\ DirOf(n) \in {VAULT_REFERENCE_DIR, VAULT_CLIP_DIR}
    /\ DirOf(n) = VAULT_REFERENCE_DIR <=> IsSome(detectChatService(rec[requests[n].tab].url))
    /\ DirOf(n) = VAULT_REFERENCE_DIR =>
         /\ FmValues(NoteOf(n), "source_type: ") = {"chat"}
         /\ FmValues(NoteOf(n), "pipeline: ") = {"distill"}

\* what holds of the code: the directory follows the chat service, and a
\* reference note declares chat and distill when the keys were configured
C24_ReferenceNotesWithKey ==
  \A n \in ReqIdx("note") :
    /\ DirOf(n) \in {VAULT_REFERENCE_DIR, VAULT_CLIP_DIR}
    /\ DirOf(n) = VAULT_REFERENCE_DIR <=> IsSome(detectChatService(rec[requests[n].tab].url))
    /\ (DirOf(n) = VAULT_REFERENCE_DIR /\ loc.outcome # "none") =>
         IF loc.hasKey
         THEN /\ FmValues(NoteOf(n), "source_type: ") = {"chat"}
              /\ FmValues(NoteOf(n), "pipeline: ") = {"distill"}
         ELSE /\ FmValues(NoteOf(n), "source_type: ") = {"web"}
              /\ FmValues(NoteOf(n), "pipeline: ") = {"summary"}

----------------------------------------------------------------------------
(* C25: the save that stops before its first tab *)

StoppedEarly == loc.outcome \in {"noSelection", "noConfig", "unreachable"}

\* nothing was done for a tab: no copy was made, hence no reload and no
\* script injection, and the logs of AI calls and vault requests are empty
NothingDone ==
  /\ flat = <<>> /\ rec = <<>>
  /\ aiLog = <<>> /\ requests = <<>> /\ dayIndex = <<>>

\* C25: when no tab is selected, when no REST token is configured or when
\* the health check returns false, saveSelectedTabs reloads no tab, injects
\* no script, makes no AI call and no vault write; it only shows an error
\* status, and it ends at that point.
C25_EarlyReturns ==
  /\ [](StoppedEarly => (pc = "idle" /\ status = "error" /\ NothingDone))
  /\ [][(pc \in {"idle", "loadRestConfig", "healthCheck"} /\ pc' = "idle" /\ loc' # loc /\ loc'.outcome # "none")
          => (loc'.outcome \in {"noSelection", "noConfig", "unreachable"} /\ status' = "error"
              /\ UNCHANGED <<tabs, selectedTabs, saves, faults>>)]_vars
  /\ [][(loc.outcome = "running" /\ pc \in {"loadRestConfig", "healthCheck"}) => NothingDone]_vars

\* the three ways met after a save that wrote a note
C25_Witness ==
  /\ StoppedEarly /\ loc.outcome = "unreachable"
  /\ written # {}
  /\ status = "error"

----------------------------------------------------------------------------
(* C26: one id per tab copy *)

\* the id in a file name "<prefix><base>_<id>.<ext>" or "img-<id>_<j>.<ext>"
IdInName(name) == IF name[1] = "img-" THEN name[2] ELSE name[Len(name) - 1]

\* the file name of a vault path "<directory>/<name>"
NameOf(path) == SubSeq(path, 3, Len(path))

FileNamesOf(r) ==
  {Get(f) : f \in {g \in {r.rawFilename, r.summaryFilename, r.chatRawFilename} : IsSome(g)}}

\* C26: within one save the id of a tab is generated once and shared: the
\* raw file name, the note file name in every branch, the chat log file name
\* and the image file names of the tab carry it, and the raw_content path in
\* the note is the vault path at which the raw file is PUT.
C26_OneIdPerTab ==
  /\ [](\A t \in DOMAIN rec :
          /\ \A name \in FileNamesOf(rec[t]) : IsSome(rec[t].uid8) /\ IdInName(name) = Get(rec[t].uid8)
          /\ \A n \in DOMAIN requests :
               (requests[n].tab = t /\ requests[n].kind # "dayIndex")
                 => IdInName(NameOf(requests[n].path)) = Get(rec[t].uid8)
          /\ \A n \in ReqIdx("raw") : \A k \in ReqIdx("note") :
               (requests[n].tab = t /\ requests[k].tab = t)
                 => RawContentPaths(NoteOf(k)) = {requests[n].path})
  /\ [][\A t \in DOMAIN rec :
          (IsSome(rec[t].uid8) /\ t \in DOMAIN rec') => rec'[t].uid8 = rec[t].uid8]_vars

\* a save PUT the raw file, an image and the note of one tab, and the chat
\* log of another whose distill request had failed
C26_Witness ==
  /\ loc.outcome = "saved"
  /\ \E t \in DOMAIN rec :
       /\ \E n \in ReqIdx("raw") : requests[n].tab = t /\ requests[n].ok
       /\ \E n \in ReqIdx("image") : requests[n].tab = t
       /\ \E n \in ReqIdx("note") : requests[n].tab = t
  /\ \E t \in DOMAIN rec :
       /\ \E n \in ReqIdx("chatRaw") : requests[n].tab = t
       /\ \E n \in 1..Len(aiLog) : aiLog[n].tab = t /\ ~aiLog[n].ok

----------------------------------------------------------------------------
(* C28: the save works on copies *)

\* a step of saveSelectedTabs: every step but the controls of the popup and
\* the opening of a new popup
SaveStep == pc # "closed" /\ (pc # "idle" \/ pc' # "idle" \/ loc' # loc)

\* the fields getSelectedTabsByWindow copies
SameTabData(r, t) ==
  /\ r.id = t /\ r.title = tabs[t].title /\ r.url = tabs[t].url
  /\ r.discarded = tabs[t].discarded /\ r.chatService = tabs[t].chatService

\* a copy as it is made: nothing of a save on it
Untouched(r) ==
  /\ r.uid8 = None /\ r.baseForFilename = None /\ r.rawFilename = None
  /\ r.chatRawFilename = None /\ r.summaryFilename = None /\ r.summaryContent = None

\* C28: saveSelectedTabs works on copies of the tab records: whether it
\* succeeds or fails, no step of it changes the list of the popup (label,
\* image toggle, tabs and their fields) or the selection, so a repeated save
\* starts from copies of the same tab data that carry nothing of the earlier
\* save, and draws their ids anew.
C28_SaveWorksOnCopies ==
  /\ [][SaveStep => UNCHANGED <<tabs, windowLabel, captureImages, selectedTabs>>]_vars
  /\ [][(pc = "storageGet" /\ pc' # "storageGet") =>
          /\ DOMAIN rec' = selectedTabs
          /\ \A t \in DOMAIN rec' : SameTabData(rec'[t], t) /\ Untouched(rec'[t])]_vars
  /\ [](\A t \in DOMAIN rec : SameTabData(rec[t], t))
  /\ [][(pc = "body" /\ pc' # "body") => rec'[CurTab].uid8 \in {Some(u) : u \in Uids}]_vars

\* a save wrote the note of a tab and failed on the day index; the save
\* repeated with the same selection gave the tab another id
C28_Witness ==
  /\ pc # "idle"
  /\ \E w \in written :
       /\ w.tab \in DOMAIN rec
       /\ IsSome(rec[w.tab].uid8)
       /\ Get(rec[w.tab].uid8) # w.uid
       /\ selectedTabs = {w.tab}
  /\ dayIndex = <<>>

----------------------------------------------------------------------------
(* The two timed waits: ensureTabLoadedForBody and fetchChatContent.  The   *)
(* variable wait holds one call of one of them.  A timer that was set and   *)
(* not cleared fires (setTimeout), which is the fairness of WaitSpec.       *)

UpdateStatuses == {"loading", "complete"}

\* the mutant: any update of the tab ends the wait
listenerMatches_AnyStatus(id, st, tabId) == id = tabId

\* line 1377: the listener goes on only for its tab and the status complete
listenerMatches(id, st, tabId) == id = tabId /\ st = "complete"

\* ensureTabLoadedForBody(tabId) when it is called: line 1367 is awaited
ReloadWaitStart(tabId) ==
  [fn |-> "ensureTabLoadedForBody", tabId |-> tabId, phase |-> "reload", timer |-> "unset",
   listener |-> FALSE, resolves |-> 0, how |-> "none", from |-> 0, at |-> 0, log |-> <<>>]

\* fetchChatContent(tabId, url, discarded) when it is called
ChatWaitStart(url, discarded) ==
  [fn |-> "fetchChatContent", url |-> url, discarded |-> discarded, phase |-> "start",
   script |-> "none", timer |-> "unset", threw |-> FALSE, how |-> "none", result |-> EmptyChat]

WaitInit ==
  /\ MainIdle
  /\ fnCall = <<>> /\ fnOut = <<>> /\ fnDone = FALSE
  /\ calls = <<>> /\ ui = <<>>
  /\ \/ \E tabId \in 1..NumTabs : wait = ReloadWaitStart(tabId)
     \/ \E url \in ProbeUrls, discarded \in BOOLEAN : wait = ChatWaitStart(url, discarded)

\* line 1367 settles: the promise of lines 1368-1383 is made (timer set,
\* listener added), or chrome.tabs.reload rejected and so does the function
ReloadSettles ==
  /\ wait.fn = "ensureTabLoadedForBody" /\ wait.phase = "reload"
  /\ \/ wait' = [wait EXCEPT !.phase = "waiting", !.timer = "armed", !.listener = TRUE,
                             !.from = Len(wait.log)]
     \/ wait' = [wait EXCEPT !.phase = "rejected"]
  /\ UNCHANGED <<mainVars, fnVars, calls, ui>>

\* chrome.tabs.onUpdated fires for tab id with changeInfo.status = st
TabUpdated(id, st) ==
  /\ wait.fn = "ensureTabLoadedForBody"
  /\ Len(wait.log) < MaxEvents
  /\ LET logged == [wait EXCEPT !.log = Append(@, [id |-> id, status |-> st])]
     IN wait' = IF wait.listener /\ listenerMatches(id, st, wait.tabId)
                THEN [logged EXCEPT !.timer = "cleared", !.listener = FALSE,
                                    !.resolves = @ + 1, !.phase = "resolved",
                                    !.how = "complete", !.at = Len(logged.log)]
                ELSE logged
  /\ UNCHANGED <<mainVars, fnVars, calls, ui>>

\* lines 1369-1372: the 30-second timer
TimerFires ==
  /\ wait.fn = "ensureTabLoadedForBody" /\ wait.timer = "armed"
  /\ wait' = [wait EXCEPT !.timer = "fired", !.listener = FALSE, !.resolves = @ + 1,
                          !.phase = "resolved", !.how = "timeout", !.at = Len(wait.log)]
  /\ UNCHANGED <<mainVars, fnVars, calls, ui>>

\* lines 1465-1476: the test, then executeScript and the timer are started
ChatStart ==
  /\ wait.fn = "fetchChatContent" /\ wait.phase = "start"
  /\ wait' = IF isTabUninjectable(wait.url, wait.discarded)
             THEN [wait EXCEPT !.phase = "returned", !.how = "uninjectable",
                               !.result = fetchChatContent(wait.url, wait.discarded, THROWS).result]
             ELSE [wait EXCEPT !.phase = "racing", !.script = "pending", !.timer = "armed"]
  /\ UNCHANGED <<mainVars, fnVars, calls, ui>>

\* the promise of executeScript settles; if the race is still open the
\* function returns from line 1480 or from the catch of line 1486
ScriptSettles ==
  /\ wait.fn = "fetchChatContent" /\ wait.script = "pending"
  /\ \E page \in {THROWS} \cup {RETURNS(v) : v \in PageValues("fetchChatContent")} :
       LET seen == [wait EXCEPT !.script = IF page.threw THEN "rejected" ELSE "returned"]
       IN wait' = IF wait.phase = "racing"
                  THEN [seen EXCEPT !.phase = "returned",
                                    !.how = IF page.threw THEN "injectionFailed" ELSE "script",
                                    !.result = fetchChatContent(wait.url, wait.discarded, page).result]
                  ELSE seen
  /\ UNCHANGED <<mainVars, fnVars, calls, ui>>

\* line 1474: the 5-second timer, which nothing clears
ChatTimerFires ==
  /\ wait.fn = "fetchChatContent" /\ wait.timer = "armed"
  /\ wait' = IF wait.phase = "racing"
             THEN [wait EXCEPT !.timer = "fired", !.phase = "returned", !.how = "timeout",
                               !.result = fetchChatContent(wait.url, wait.discarded, THROWS).result]
             ELSE [wait EXCEPT !.timer = "fired"]
  /\ UNCHANGED <<mainVars, fnVars, calls, ui>>

WaitNext ==
  \/ ReloadSettles
  \/ \E id \in 1..NumTabs, st \in UpdateStatuses : TabUpdated(id, st)
  \/ TimerFires
  \/ ChatStart
  \/ ScriptSettles
  \/ ChatTimerFires

WaitSpec ==
  /\ WaitInit /\ [][WaitNext]_vars
  /\ WF_vars(TimerFires) /\ WF_vars(ChatStart) /\ WF_vars(ChatTimerFires)

\* the events the listener was registered for, up to the k-th of the log
HeardUpTo(k) == {n \in (wait.from + 1)..k : listenerMatches(wait.log[n].id, wait.log[n].status, wait.tabId)}

ReloadWaitSafe ==
  wait.fn = "ensureTabLoadedForBody" =>
    /\ wait.resolves <= 1
    /\ wait.phase = "waiting" => (wait.listener /\ wait.timer = "armed" /\ HeardUpTo(Len(wait.log)) = {})
    /\ wait.phase = "resolved" =>
         /\ wait.resolves = 1 /\ ~wait.listener
         /\ \/ wait.how = "complete" /\ wait.timer = "cleared" /\ HeardUpTo(wait.at) = {wait.at}
               /\ wait.log[wait.at] = [id |-> wait.tabId, status |-> "complete"]
            \/ wait.how = "timeout" /\ wait.timer = "fired" /\ HeardUpTo(wait.at) = {}
    /\ wait.phase \in {"reload", "rejected"} => (wait.resolves = 0 /\ ~wait.listener)

\* C17: once chrome.tabs.reload has resolved, the wait of
\* ensureTabLoadedForBody ends: it resolves exactly once, at the first
\* update of its tab with status complete or when the 30-second timer fires,
\* whichever comes first; other updates do not end it; after the end the
\* onUpdated listener is not registered.
C17_ReloadWaitEnds ==
  /\ [](ReloadWaitSafe)
  /\ (wait.fn = "ensureTabLoadedForBody" /\ wait.phase = "waiting")
       ~> [](wait.phase = "resolved" /\ wait.resolves = 1 /\ ~wait.listener)

\* the wait ended by its timer after an update of another tab with status
\* complete and an update of its own tab with another status
C17_Witness ==
  /\ wait.fn = "ensureTabLoadedForBody"
  /\ wait.phase = "resolved" /\ wait.how = "timeout"
  /\ \E n, m \in (wait.from + 1)..wait.at :
       /\ wait.log[n].id # wait.tabId /\ wait.log[n].status = "complete"
       /\ wait.log[m].id = wait.tabId /\ wait.log[m].status = "loading"

ChatWaitSafe ==
  wait.fn = "fetchChatContent" =>
    /\ ~wait.threw
    /\ wait.how \in {"uninjectable", "injectionFailed", "timeout"} => wait.result = EmptyChat
    /\ wait.phase = "returned" <=> wait.how # "none"

\* C18: fetchChatContent always returns and never throws; when the 5-second
\* timer fires before the injected script has returned, or the injection
\* fails, what it returns is the empty result (service unknown, no turns,
\* empty raw text).
C18_ChatContentSettles ==
  /\ [](ChatWaitSafe)
  /\ (wait.fn = "fetchChatContent") ~> [](wait.phase = "returned")

\* the timer fired while the script was pending, and the script returned a
\* conversation afterwards
C18_Witness ==
  /\ wait.fn = "fetchChatContent"
  /\ wait.how = "timeout" /\ wait.script = "returned"
  /\ wait.result = EmptyChat

----------------------------------------------------------------------------
(* The tab list of the popup.  src/popup.ts lists the current window;       *)
(* popup.js, the script of the same popup with a "fetch all" button, lists  *)
(* every window.  The handlers of the check boxes are the same in both.     *)
(* ui.allWindows is the list, ui.windowCheckbox the check boxes of the      *)
(* rendered list (empty after tabListEl.innerHTML = ""), ui.pending the     *)
(* fetches that wait on an await, ui.refine the last call of                *)
(* refineWindowLabelWithAI.                                                 *)

\* the tab ids of the browser's windows; the first is the current window
BrowserWindows == << {1, 2}, {3} >>

\* a label is a sequence of characters; WINDOW_WORD is the word of the
\* default label "<word> N"
WINDOW_WORD == "Window"
DefaultLabel(n) == <<WINDOW_WORD, " ", ToString(n)>>
Digits == {"0", "1", "2", "3", "4", "5", "6", "7", "8", "9"}

\* s.trim() on a text that may hold line breaks
RECURSIVE TrimWs(_)
TrimWs(s) ==
  IF Len(s) = 0 THEN s
  ELSE IF Head(s) \in {" ", NL} THEN TrimWs(Tail(s))
  ELSE IF s[Len(s)] \in {" ", NL} THEN TrimWs(SubSeq(s, 1, Len(s) - 1))
  ELSE s

\* s.replace(/\s+/g, " ")
RECURSIVE CollapseWs(_)
CollapseWs(s) ==
  IF Len(s) = 0 THEN s
  ELSE IF Head(s) \in {" ", NL}
       THEN IF Len(s) > 1 /\ s[2] \in {" ", NL} THEN CollapseWs(Tail(s))
            ELSE <<" ">> \o CollapseWs(Tail(s))
       ELSE <<Head(s)>> \o CollapseWs(Tail(s))

\* s.replace(/\n.*/s, ""): the text before the first line break
RECURSIVE FirstLine(_)
FirstLine(s) ==
  IF Len(s) = 0 \/ Head(s) = NL THEN <<>> ELSE <<Head(s)>> \o FirstLine(Tail(s))

\* the mutant: only the word is looked for
IsDefaultLabel_WordOnly(label) == Len(label) >= 1 /\ label[1] = WINDOW_WORD

\* /^<word>\s*\d+$/.test(label)
IsDefaultLabel(label) ==
  /\ Len(label) >= 2 /\ label[1] = WINDOW_WORD
  /\ \E k \in 2..Len(label) :
       /\ \A i \in 2..(k - 1) : label[i] \in {" ", NL}
       /\ \A i \in k..Len(label) : label[i] \in Digits

REFINED_LABEL_MAX == 20
SELECTION_LABEL_MAX == 80

\* refineWindowLabelWithAI: ai is what callAI does, [ok, text]; asked tells
\* whether callAI was called
refineWindowLabelWithAI(label, ai) ==
  IF label = <<>> \/ IsDefaultLabel(TrimWs(label))
  THEN [label |-> label, asked |-> FALSE]
  ELSE IF ~ai.ok THEN [label |-> label, asked |-> TRUE]
  ELSE LET out == TrimWs(FirstLine(TrimWs(ai.text)))
           cut == Slice(out, 0, Min2(REFINED_LABEL_MAX, Len(out)))
       IN [label |-> IF cut # <<>> THEN cut ELSE label, asked |-> TRUE]

\* the mutant: checked when every tab of the window is selected
syncWindowCheckboxes_Every(allWindows, selected) ==
  [w \in DOMAIN allWindows |-> allWindows[w].tabs \subseteq selected]

\* syncWindowCheckboxes, and the check boxes renderTabList creates (line 1629)
syncWindowCheckboxes(allWindows, selected) ==
  [w \in DOMAIN allWindows |-> allWindows[w].tabs \cap selected # {}]

\* updateCopyButton: the value of saveBtn.disabled
updateCopyButton(selected) == selected = {}

\* what the AI answers to the label prompt
AiLabelAnswers ==
  { [ok |-> FALSE, text |-> <<>>],
    [ok |-> TRUE, text |-> <<>>],
    [ok |-> TRUE, text |-> <<" ", NL>>],
    [ok |-> TRUE, text |-> <<" ", "T", "o", "p", NL, "m", "o", "r", "e">>],
    [ok |-> TRUE, text |-> [i \in 1..(REFINED_LABEL_MAX + 5) |-> "x"]] }

\* data.suggestedLabel: the content of a title, or the default label
SuggestedLabels ==
  { <<"D", "o", "c">>, [i \in 1..(REFINED_LABEL_MAX + 5) |-> "t"],
    <<WINDOW_WORD, " ", "1", "a">>, DefaultLabel(1) }

\* the text selected in the active tab, trimmed by getSelectionInPage; None
\* when there is none
SelectedTexts == { None, Some(<<"m", "y", " ", NL, "s", "e", "l">>) }

\* what the user leaves in the label span
EditTexts == { <<>>, <<" ">>, <<" ", "N", "e", "w", " ">>, DefaultLabel(3) }

\* the script starts: fetchCurrentWindowTabs up to its first await
UiStart ==
  [allWindows |-> <<>>, selectedTabs |-> {}, saveBtnDisabled |-> TRUE,
   windowCheckbox |-> <<>>, pending |-> {"current"}, refine |-> None]

UiInit ==
  /\ MainIdle
  /\ fnCall = <<>> /\ fnOut = <<>> /\ fnDone = FALSE
  /\ calls = <<>> /\ wait = <<>>
  /\ ui = UiStart

\* the popup is opened (again): a new document, whose script calls
\* fetchCurrentWindowTabs
OpenPopup ==
  /\ ui' = UiStart
  /\ UNCHANGED <<mainVars, fnVars, calls, wait>>

\* popup.js, fetchAllTabs up to its first await (the click on fetchBtn)
fetchAllTabs ==
  /\ ui' = [ui EXCEPT !.selectedTabs = {}, !.saveBtnDisabled = TRUE,
                      !.windowCheckbox = <<>>, !.pending = @ \cup {"all"}]
  /\ UNCHANGED <<mainVars, fnVars, calls, wait>>

\* lines 1598-1608: the window of fetchCurrentWindowTabs with its first label
CurrentWindow(selected, suggested) ==
  [tabs |-> BrowserWindows[1],
   label |-> IF IsSome(selected)
             THEN Slice(CollapseWs(Get(selected)), 0,
                        Min2(SELECTION_LABEL_MAX, Len(CollapseWs(Get(selected)))))
             ELSE suggested,
   labelFromSelection |-> IsSome(selected)]

\* refineAllWindowsLabelsOnFetch on a list of one window; refine is the call
\* of refineWindowLabelWithAI it made, if any
refineAllWindowsLabelsOnFetch(win, hasKey, ai) ==
  IF ~hasKey \/ win.labelFromSelection
  THEN [win |-> win, refine |-> None]
  ELSE LET r == refineWindowLabelWithAI(win.label, ai)
       IN [win |-> [win EXCEPT !.label = r.label],
           refine |-> Some([label |-> win.label, fromSelection |-> win.labelFromSelection,
                            ai |-> ai, out |-> r.label, asked |-> r.asked])]

\* the rest of a fetch: it fails and shows the error, or it sets allWindows
\* and renders the list
FetchSettles(kind) ==
  /\ kind \in ui.pending
  /\ \/ ui' = [ui EXCEPT !.pending = @ \ {kind}]
     \/ /\ kind = "current"
        /\ \E selected \in SelectedTexts, suggested \in SuggestedLabels,
              hasKey \in BOOLEAN, ai \in AiLabelAnswers :
             LET r == refineAllWindowsLabelsOnFetch(CurrentWindow(selected, suggested), hasKey, ai)
             IN ui' = [ui EXCEPT !.pending = @ \ {kind},
                                 !.allWindows = <<r.win>>,
                                 !.refine = r.refine,
                                 !.windowCheckbox = syncWindowCheckboxes(<<r.win>>, ui.selectedTabs)]
     \/ /\ kind = "all"
        /\ LET all == [w \in DOMAIN BrowserWindows |->
                         [tabs |-> BrowserWindows[w], label |-> DefaultLabel(w),
                          labelFromSelection |-> FALSE]]
           IN ui' = [ui EXCEPT !.pending = @ \ {kind},
                               !.allWindows = all,
                               !.windowCheckbox = syncWindowCheckboxes(all, ui.selectedTabs)]
  /\ UNCHANGED <<mainVars, fnVars, calls, wait>>

\* the tabs that have a check box in the rendered list
ListedTabs == UNION {ui.allWindows[w].tabs : w \in DOMAIN ui.windowCheckbox}

\* toggleTab, called by the change of a tab's check box
UiToggleTab(tabId, checked) ==
  /\ tabId \in ListedTabs
  /\ LET selected == IF checked THEN ui.selectedTabs \cup {tabId} ELSE ui.selectedTabs \ {tabId}
     IN ui' = [ui EXCEPT !.selectedTabs = selected,
                         !.windowCheckbox = syncWindowCheckboxes(ui.allWindows, selected),
                         !.saveBtnDisabled = updateCopyButton(selected)]
  /\ UNCHANGED <<mainVars, fnVars, calls, wait>>

\* toggleWindow, called by the change of a window's check box
UiToggleWindow(winIndex, checked) ==
  /\ winIndex \in DOMAIN ui.windowCheckbox
  /\ LET selected == IF checked THEN ui.selectedTabs \cup ui.allWindows[winIndex].tabs
                     ELSE ui.selectedTabs \ ui.allWindows[winIndex].tabs
     IN ui' = [ui EXCEPT !.selectedTabs = selected,
                         !.windowCheckbox = syncWindowCheckboxes(ui.allWindows, selected),
                         !.saveBtnDisabled = updateCopyButton(selected)]
  /\ UNCHANGED <<mainVars, fnVars, calls, wait>>

\* the blur of a label span (lines 1638-1641)
LabelBlur(winIndex, text) ==
  /\ winIndex \in DOMAIN ui.windowCheckbox
  /\ LET next == TrimWs(text)
     IN ui' = IF next # <<>> THEN [ui EXCEPT !.allWindows[winIndex].label = next] ELSE ui
  /\ UNCHANGED <<mainVars, fnVars, calls, wait>>

UiNext ==
  \/ OpenPopup
  \/ fetchAllTabs
  \/ \E kind \in {"current", "all"} : FetchSettles(kind)
  \/ \E tabId \in UNION {BrowserWindows[w] : w \in DOMAIN BrowserWindows}, checked \in BOOLEAN :
       UiToggleTab(tabId, checked)
  \/ \E winIndex \in DOMAIN BrowserWindows, checked \in BOOLEAN : UiToggleWindow(winIndex, checked)
  \/ \E winIndex \in DOMAIN BrowserWindows, text \in EditTexts : LabelBlur(winIndex, text)

UiSpec == UiInit /\ [][UiNext]_vars

TabsOf(winIndex) == ui.allWindows[winIndex].tabs

C29_LabelNeverEmpty ==
  /\ [](\A w \in DOMAIN ui.allWindows : TrimWs(ui.allWindows[w].label) # <<>>)
  /\ [][\A w \in DOMAIN BrowserWindows, text \in EditTexts :
          LabelBlur(w, text) =>
            ui'.allWindows[w].label = (IF TrimWs(text) = <<>> THEN ui.allWindows[w].label ELSE TrimWs(text))]_vars
  /\ [](IsSome(ui.refine) =>
          LET c == Get(ui.refine)
          IN /\ ~c.fromSelection
             /\ (\E n \in 1..9 : c.label = DefaultLabel(n)) <=> ~c.asked
             /\ IF ~c.asked \/ ~c.ai.ok \/ TrimWs(c.ai.text) = <<>>
                THEN c.out = c.label
                ELSE c.out # <<>> /\ Len(c.out) <= 20)

\* the AI was asked about a title longer than 20 characters and answered
\* with more than one line; the label is the first line
C29_Witness ==
  /\ Len(ui.windowCheckbox) = 1
  /\ IsSome(ui.refine)
  /\ Len(Get(ui.refine).label) > 20
  /\ Get(ui.refine).asked
  /\ Get(ui.refine).out = <<"T", "o", "p">>
  /\ ui.allWindows[1].label = <<"T", "o", "p">>

====
